---- MODULE Spec2Model ----
(***************************************************************************)
(* A model of the message-generation pipeline of aicommits                 *)
(* (src/src/utils/openai.ts): the completion client that reassembles a     *)
(* streamed chat completion, and generateCommitMessage with its locale     *)
(* rewrite, harmonisation, scope enforcement and de-duplication.           *)
(*                                                                         *)
(* Conventions.                                                            *)
(*  - Text is a TLA+ string.  TLA+ strings are ASCII, so the character "#" *)
(*    stands for one CJK Unified Ideograph (a character of U+3400..U+9FFF);*)
(*    like an ideograph it is neither a word character nor white space.    *)
(*    Only in the lines of config.toml is "#" the number sign itself.      *)
(*    The backquote cannot be written in a string of this language either: *)
(*    "~" stands for it.                                                   *)
(*  - A value that may be missing or of another type than string is held   *)
(*    as a sequence: << >> when it is not a string, <<s>> when it is the   *)
(*    string s.                                                            *)
(*  - The bytes of an HTTP response body are a sequence of tokens: "CR",    *)
(*    "LF", the name of a line text that is all ASCII (LineText below), or *)
(*    one of the two halves of the one line text that is not: the bytes up *)
(*    to and with the first byte of its two-byte character, and the bytes  *)
(*    from the second byte of the character on.  ASCII text holds no line  *)
(*    break and no outer white space here, and its bytes are its           *)
(*    characters, so cutting it in two transport chunks changes nothing.   *)
(*    A cut between the two bytes of a character does: the live path       *)
(*    decodes every chunk by itself (toString below).                      *)
(*  - In decoded text "@" stands for the character U+00E9 (in UTF-8 the    *)
(*    bytes C3 A9) and "?" for U+FFFD REPLACEMENT CHARACTER.               *)
(***************************************************************************)
EXTENDS Integers, Sequences, FiniteSets, TLC

VARIABLES
    \* ---- createChatCompletion, one call ----
    wire,             \* the tokens of the response body not yet delivered
    data,             \* httpsPost: the bytes of body so far
    liveStreamBuffer, \* createChatCompletion: liveStreamBuffer
    events,           \* the events handed to onStreamEvent, in emission order
    spc,              \* "receiving" | "done"
    completion,       \* what createChatCompletion returned or threw
    \* ---- generateCommitMessage, one call ----
    options,          \* the arguments of the call (type, locale, options)
    gpc,              \* "idle" | "generating" | "rewriting" | "returned" | "thrown"
    pass,             \* the number of requestMessages calls started
    completionResponses, \* per request of the pass: its completion, once there
    messages,         \* requestMessages: messages (sanitized, non-empty)
    rewriteCompletions, \* per message: what its rewrite request settled as
                      \* (NoCompletion while it runs or when none was made)
    localizedMessages, \* per message: << >> while enforceTitleLocale runs,
                      \* then <<the message it resolved to>>
    passMessages,     \* what each finished requestMessages call returned
    result,           \* what generateCommitMessage returned (when gpc = "returned")
    answers,          \* per request of the pass, by its position in the array
                      \* handed to Promise.all: what it settled as
    rewriteAnswers,   \* per enforceTitleLocale call, by its position: what its
                      \* rewrite request settled as
    \* ---- generateCommitMessage with the type classifier (part_007) ----
    commitType,       \* the type argument: "" | "conventional"
    conventionalTypes, \* parseConventionalTypes(options.conventionalTypes)
    classifier,       \* "NotRun" | "Scoring" | "Locked" | "Unlocked"
    judgeReply,       \* what the classification request settled as
    judgeReport,      \* << >>, or <<the report of selectLockedConventionalType>>
    lockedConventionalType, \* << >> (undefined), or <<the locked type>>
    systemPrompt,     \* the lines of the system prompt of the generation request
    lpc,              \* "idle" | "classifying" | "generating" | "returned" | "thrown"
    generated,        \* what the call returned, or the error it threw
    \* ---- one run of the command (commands/aicommits.ts) or of the
    \*      prepare-commit-msg hook (commands/prepare-commit-msg-hook.ts) ----
    command,          \* "aicommits" | "hook"
    argv,             \* the flags and arguments of the run
    configFile,       \* config.toml: per key, << >> or <<the text right of "=">>
    repository,       \* the index and the work tree when the run starts
    gitIndex,         \* the index and the work tree now
    config,           \* << >>, or <<what getConfig returned or threw>>
    effects,          \* the external commands, requests and writes made so far
    cliMessages,      \* << >>, or <<what generateCommitMessage returned>>
    answer,           \* << >>, or <<what the confirm or select prompt settled as>>
    committed,        \* << >>, or <<the message of the commit that was made>>
    messageFile,      \* the content of the commit message file
    outro,            \* the last line printed ("" while the run goes on)
    stderr,           \* the lines handleCliError printed
    requestError,     \* << >>, or <<the error the completion request failed with>>
    cpc,              \* "start" | "generating" | "prompting" | "returned" | "exited"
    \* ---- one function of the post-processing, applied to its own result ----
    fnName,           \* the function
    fnInput,          \* its arguments
    fnOutputs,        \* what it returned, application after application
    \* ---- the config and hook commands, run one after the other ----
    fileSystem,       \* the config file and the prepare-commit-msg hook file
    invocations       \* per command run: its arguments, output and exit code

svars == <<wire, data, liveStreamBuffer, events, spc, completion>>

gvars == <<options, gpc, pass, completionResponses, messages, rewriteCompletions,
           localizedMessages, passMessages, result, answers, rewriteAnswers>>

jvars == <<commitType, conventionalTypes, classifier, judgeReply, judgeReport,
           lockedConventionalType, systemPrompt, lpc, generated>>

\* The variables of the machines other than the completion client and
\* generateCommitMessage of openai.ts.
cvars == <<command, argv, configFile, repository, gitIndex, config, effects,
           cliMessages, answer, committed, messageFile, outro, stderr,
           requestError, cpc>>

pvars == <<fnName, fnInput, fnOutputs>>

hvars == <<fileSystem, invocations>>

xvars == <<jvars, cvars, pvars, hvars>>

vars == <<svars, gvars, xvars>>

\* The classifier machine is not part of the run.
JudgeUnused ==
    /\ commitType = "" /\ conventionalTypes = << >> /\ classifier = "NotRun"
    /\ judgeReply = << >> /\ judgeReport = << >> /\ lockedConventionalType = << >>
    /\ systemPrompt = << >> /\ lpc = "unused" /\ generated = << >>

\* No function is applied on its own.
PureUnused == fnName = "unused" /\ fnInput = << >> /\ fnOutputs = << >>

\* No config or hook command is part of the run.
ShellUnused == fileSystem = << >> /\ invocations = << >>

\* No command is part of the run.
CliUnused ==
    /\ command = "unused" /\ argv = << >> /\ configFile = << >>
    /\ repository = << >> /\ gitIndex = << >> /\ config = << >>
    /\ effects = << >> /\ cliMessages = << >> /\ answer = << >>
    /\ committed = << >>
    /\ messageFile = "" /\ outro = "" /\ stderr = << >> /\ requestError = << >>
    /\ cpc = "unused"

(***************************************************************************)
(* Generic helpers on sequences and strings.                               *)
(***************************************************************************)
RECURSIVE Join(_)
\* Array.prototype.join('') of a sequence of strings.
Join(parts) ==
    IF parts = << >> THEN "" ELSE Head(parts) \o Join(Tail(parts))

RECURSIVE Flatten(_)
\* Array.prototype.flat / flatMap: the concatenation of a sequence of sequences.
Flatten(seqs) ==
    IF seqs = << >> THEN << >> ELSE Head(seqs) \o Flatten(Tail(seqs))

RECURSIVE IsSubsequence(_, _)
\* s can be obtained from t by deleting elements (order kept).
IsSubsequence(s, t) ==
    IF s = << >> THEN TRUE
    ELSE IF t = << >> THEN FALSE
    ELSE IF Head(s) = Head(t) THEN IsSubsequence(Tail(s), Tail(t))
    ELSE IsSubsequence(s, Tail(t))

(***************************************************************************)
(* Strings: the JavaScript string and RegExp operations the code uses.     *)
(***************************************************************************)
\* s.slice(i - 1, j) with 1-based inclusive bounds, clipped to the string.
Slice(s, i, j) ==
    LET lo == IF i < 1 THEN 1 ELSE i
        hi == IF j > Len(s) THEN Len(s) ELSE j
    IN  IF lo > hi THEN "" ELSE SubSeq(s, lo, hi)
\* The character at position i, "" outside the string.
Char(s, i) == Slice(s, i, i)
From(s, i) == Slice(s, i, Len(s))

LowerLetters == "abcdefghijklmnopqrstuvwxyz"
UpperLetters == "ABCDEFGHIJKLMNOPQRSTUVWXYZ"
Digits == "0123456789"
CharsOf(s) == {Char(s, i) : i \in 1..Len(s)}

\* [a-z] under the i flag
Letters == CharsOf(LowerLetters) \cup CharsOf(UpperLetters)
IsLetter(c) == c \in Letters
\* \d
DigitChars == CharsOf(Digits)
IsDigit(c) == c \in DigitChars
\* \w
WordChars == Letters \cup DigitChars \cup {"_"}
IsWordChar(c) == c \in WordChars
\* \s (of the characters used here)
Spaces == {" ", "\t", "\n", "\r", "\f"}
IsSpace(c) == c \in Spaces
\* what . matches: anything but a line terminator
IsDot(c) == c \notin {"\n", "\r"}
\* the backquote
Backquote == "~"
\* the three quote characters: double quote, single quote, backquote
IsQuote(c) == c \in {"\"", "'", Backquote}
\* [U+3400-U+9FFF], written #
IsCJK(c) == c = "#"

\* The lower-case letter of every upper-case letter.
LowerOfUpper ==
    [c \in CharsOf(UpperLetters) |->
        Char(LowerLetters, CHOOSE i \in 1..26 : Char(UpperLetters, i) = c)]

LowerOfChar(c) == IF c \in DOMAIN LowerOfUpper THEN LowerOfUpper[c] ELSE c

RECURSIVE ToLowerCase(_)
ToLowerCase(s) ==
    IF s = "" THEN "" ELSE LowerOfChar(Char(s, 1)) \o ToLowerCase(From(s, 2))

RECURSIVE TrimStart(_)
TrimStart(s) == IF s # "" /\ IsSpace(Char(s, 1)) THEN TrimStart(From(s, 2)) ELSE s

RECURSIVE TrimEnd(_)
\* s.replace(/\s+$/g, '')
TrimEnd(s) ==
    IF s # "" /\ IsSpace(Char(s, Len(s))) THEN TrimEnd(Slice(s, 1, Len(s) - 1)) ELSE s

Trim(s) == TrimEnd(TrimStart(s))

StartsWith(s, prefix) ==
    Len(s) >= Len(prefix) /\ Slice(s, 1, Len(prefix)) = prefix

RECURSIVE IndexOf(_, _, _)
\* The first position >= i where sub occurs in s; 0 when there is none.
IndexOf(s, sub, i) ==
    IF i + Len(sub) - 1 > Len(s) THEN 0
    ELSE IF Slice(s, i, i + Len(sub) - 1) = sub THEN i
    ELSE IndexOf(s, sub, i + 1)

Contains(s, sub) == IndexOf(s, sub, 1) # 0

RECURSIVE Split(_, _)
\* s.split(sep) for a non-empty separator
Split(s, sep) ==
    LET at == IndexOf(s, sep, 1) IN
    IF at = 0 THEN <<s>>
    ELSE <<Slice(s, 1, at - 1)>> \o Split(From(s, at + Len(sep)), sep)

RECURSIVE JoinWith(_, _)
\* parts.join(sep)
JoinWith(parts, sep) ==
    IF parts = << >> THEN ""
    ELSE IF Len(parts) = 1 THEN parts[1]
    ELSE parts[1] \o sep \o JoinWith(Tail(parts), sep)

RECURSIVE ReplaceAll(_, _, _)
\* s.replace(/sub/g, by) for a literal sub
ReplaceAll(s, sub, by) ==
    LET at == IndexOf(s, sub, 1) IN
    IF at = 0 THEN s
    ELSE Slice(s, 1, at - 1) \o by \o ReplaceAll(From(s, at + Len(sub)), sub, by)

RECURSIVE SpanIn(_, _, _)
\* The last position of the run of characters of the set cs that starts at
\* position i of s (i - 1 when the run is empty): a greedy [cs]*.
SpanIn(s, i, cs) ==
    IF i <= Len(s) /\ Char(s, i) \in cs THEN SpanIn(s, i + 1, cs) ELSE i - 1

RECURSIVE SpanNotIn(_, _, _)
\* The same for the characters not in cs: a greedy [^cs]*.
SpanNotIn(s, i, cs) ==
    IF i <= Len(s) /\ Char(s, i) \notin cs THEN SpanNotIn(s, i + 1, cs) ELSE i - 1

\* Array.prototype.filter(Boolean) on strings
FilterNonEmpty(seq) == LET NonEmpty(x) == x # "" IN SelectSeq(seq, NonEmpty)

(***************************************************************************)
(* Message sanitizer (title part).                                         *)
(***************************************************************************)
Fence == Backquote \o Backquote \o Backquote

RECURSIVE fencedContent(_, _)
\* The match tried at the fence at position open, whose tag ends at tagEnd
\* and whose next fence after the tag's line break is at close (0 = none).
fencedContentAt(text, open, tagEnd, close) ==
    IF tagEnd + 1 <= Len(text) /\ Char(text, tagEnd + 1) = "\n" /\ close # 0
    THEN <<Slice(text, tagEnd + 2, close - 1)>>
    ELSE fencedContent(text, open + 1)

fencedContentTagged(text, open, tagEnd) ==
    fencedContentAt(text, open, tagEnd, IndexOf(text, Fence, tagEnd + 2))

fencedContentFrom(text, open) ==
    IF open = 0 THEN << >>
    ELSE fencedContentTagged(text, open, SpanIn(text, open + 3, WordChars \cup {"-"}))

\* text.match(/```[\w-]*\n([\s\S]*?)```/) tried from position i on: << >> when
\* there is no match, else <<capture group 1>> of the leftmost match.
fencedContent(text, i) == fencedContentFrom(text, IndexOf(text, Fence, i))

\* The two returns of stripCodeFences, for the match fenced.
stripCodeFencesOf(text, fenced) ==
    IF fenced # << >> /\ fenced[1] # "" THEN Trim(fenced[1])
    ELSE Trim(ReplaceAll(text, Fence, ""))

stripCodeFences(text) == stripCodeFencesOf(text, fencedContent(text, 1))

\* .replace(/^title:\s*/i, '')
stripTitleLabel(s) ==
    IF StartsWith(ToLowerCase(Slice(s, 1, 6)), "title:")
    THEN From(s, SpanIn(s, 7, Spaces) + 1)
    ELSE s

\* .replace(/(\w)\.$/, '$1')
stripFinalPeriod(s) ==
    IF Len(s) >= 2 /\ Char(s, Len(s)) = "." /\ IsWordChar(Char(s, Len(s) - 1))
    THEN Slice(s, 1, Len(s) - 1)
    ELSE s

\* .replace(/^["'`]|["'`]$/g, ''): one quote off the start, ...
stripLeadingQuote(s) == IF s # "" /\ IsQuote(Char(s, 1)) THEN From(s, 2) ELSE s

\* ... then one off the end of what is left
stripTrailingQuote(s) ==
    IF s # "" /\ IsQuote(Char(s, Len(s))) THEN Slice(s, 1, Len(s) - 1) ELSE s

sanitizeTitle(title) ==
    stripTrailingQuote(stripLeadingQuote(stripFinalPeriod(stripTitleLabel(Trim(title)))))

sanitizeSimpleMessage(message) ==
    sanitizeTitle(Split(Trim(stripCodeFences(message)), "\n")[1])

\* text.replace(/\r\n?/g, '\n')
normalizeLineEndings(text) == ReplaceAll(ReplaceAll(text, "\r\n", "\n"), "\r", "\n")

RECURSIVE DropBlankLines(_)
\* while (lines[0]?.trim() === '') lines.shift()
DropBlankLines(lines) ==
    IF lines # << >> /\ Trim(Head(lines)) = "" THEN DropBlankLines(Tail(lines)) ELSE lines

\* .map(line => line.replace(/\s+$/g, ''))
TrimEndEach(lines) == [i \in 1..Len(lines) |-> TrimEnd(lines[i])]

\* lines[0] = lines[0].replace(/^body:\s*/i, '') when the trimmed first line
\* starts with body: (the pattern itself allows no space before the label)
stripBodyPrefix(rest) ==
    IF rest # << >> /\ StartsWith(ToLowerCase(Slice(Trim(rest[1]), 1, 5)), "body:")
       /\ StartsWith(ToLowerCase(Slice(rest[1], 1, 5)), "body:")
    THEN <<From(rest[1], SpanIn(rest[1], 6, Spaces) + 1)>> \o Tail(rest)
    ELSE rest

\* splitCommitMessage from the lines left after the leading blank ones.
splitCommitLines(lines) ==
    [title |-> sanitizeTitle(IF lines = << >> THEN "" ELSE Head(lines)),
     body |-> Trim(JoinWith(stripBodyPrefix(
                DropBlankLines(IF lines = << >> THEN << >> ELSE Tail(lines))), "\n"))]

splitCommitNormalized(normalized) ==
    IF normalized = "" THEN [title |-> "", body |-> ""]
    ELSE splitCommitLines(DropBlankLines(TrimEndEach(Split(normalized, "\n"))))

splitCommitMessage(message) == splitCommitNormalized(Trim(normalizeLineEndings(message)))

formatCommitMessage(title, body) ==
    IF body # "" THEN title \o "\n\n" \o body ELSE title

\* A faulty variant of deduplicateMessages that keeps every occurrence.
keepDuplicates(array) == array

RECURSIVE deduplicateMessages(_)
\* Array.from(new Set(array)): the first occurrence of each string, in order.
deduplicateMessages(array) ==
    IF array = << >> THEN << >>
    ELSE LET rest == deduplicateMessages(SubSeq(array, 1, Len(array) - 1))
             last == array[Len(array)]
         IN  IF \E i \in 1..Len(rest) : rest[i] = last THEN rest ELSE Append(rest, last)

(***************************************************************************)
(* Message sanitizer (body part).  The ideograph "#" is none of those in   *)
(* the Chinese body labels, and the full-width punctuation, the bullet and *)
(* the dashes outside ASCII are not among the characters used, so the      *)
(* patterns are given for the ASCII characters only.                       *)
(***************************************************************************)
\* The labels of the list whose letters stand at position at of text and
\* are followed, after optional spaces, by a colon.
matchingLabels(text, at, labels) ==
    {i \in 1..Len(labels) :
        /\ ToLowerCase(Slice(text, at, at + Len(labels[i]) - 1)) = labels[i]
        /\ Char(text, SpanIn(text, at + Len(labels[i]), Spaces) + 1) = ":"}

\* The text after the label, its colon and the spaces that follow.
afterLabel(text, at, label) ==
    From(text, SpanIn(text, SpanIn(text, at + Len(label), Spaces) + 2, Spaces) + 1)

\* The first alternative that lets the rest of the pattern match is taken.
stripLabelAt(text, at, labels, full) ==
    IF full = {} THEN text
    ELSE afterLabel(text, at, labels[CHOOSE i \in full : \A j \in full : i <= j])

\* text.replace(/^\s*(l1|l2|...)\s*:\s*/i, '') for the labels given in order
stripLabelFrom(text, at, labels) ==
    stripLabelAt(text, at, labels, matchingLabels(text, at, labels))

stripLabel(text, labels) == stripLabelFrom(text, SpanIn(text, 1, Spaces) + 1, labels)

stripBodyLabels(text) ==
    stripLabel(stripLabel(text, <<"body", "description", "details">>), <<"impact">>)

SentenceEnds == {".", "!", "?"}

RECURSIVE splitAfterSentence(_, _)
\* line.split(/(?<=[.!?])\s+/u): i is the position the search goes on from.
splitAfterSentence(line, i) ==
    IF i > Len(line) THEN <<line>>
    ELSE IF IsSpace(Char(line, i)) /\ i > 1 /\ Char(line, i - 1) \in SentenceEnds
         THEN <<Slice(line, 1, i - 1)>>
              \o splitAfterSentence(From(line, SpanIn(line, i, Spaces) + 1), 1)
    ELSE splitAfterSentence(line, i + 1)

\* .map(fragment => fragment.trim())
TrimEach(parts) == [i \in 1..Len(parts) |-> Trim(parts[i])]

splitListFragments(line) == FilterNonEmpty(TrimEach(splitAfterSentence(line, 1)))

ListMarkerChars == {"-", "*"}

\* The match of \d+[.)] at the start of s, digits being the last position of
\* its leading digits: the position of the [.)], or 0.
numberMarkerEnd(s, digits) ==
    IF digits >= 1 /\ Char(s, digits + 1) \in {".", ")"} THEN digits + 1 ELSE 0

\* The match of [-*]+|\d+[.)] at the start of s: its last position, or 0.
markerEnd(s, marks) ==
    IF marks >= 1 THEN marks ELSE numberMarkerEnd(s, SpanIn(s, 1, DigitChars))

listMarkerLengthOf(s, marker) ==
    IF marker = 0 THEN -1 ELSE SpanIn(s, marker + 1, Spaces)

\* The length of the match of listMarkerPattern, /^(?:[-*]+|\d+[.)])\s*/u,
\* on s; -1 when there is no match.
listMarkerLength(s) == listMarkerLengthOf(s, markerEnd(s, SpanIn(s, 1, ListMarkerChars)))

NoiseChars ==
    Spaces \cup {"-", "_", "*", ".", ",", ";", ":", "!", "?", "(", ")", "[", "]",
                 "{", "}", "\"", "'", Backquote}

\* noiseOnlyPattern.test(s)
isNoiseOnly(s) == s # "" /\ \A i \in 1..Len(s) : Char(s, i) \in NoiseChars

RECURSIVE stripNestedMarkers(_)
\* One turn of the while-loop, next being the text without its marker.
stripNestedMarker(normalized, next) ==
    IF next = "" \/ next = normalized THEN normalized ELSE stripNestedMarkers(next)

stripNestedMarkerOf(normalized, length) ==
    IF length = -1 THEN normalized
    ELSE stripNestedMarker(normalized, Trim(From(normalized, length + 1)))

\* The while-loop of normalizeListItem.
stripNestedMarkers(normalized) ==
    stripNestedMarkerOf(normalized, listMarkerLength(normalized))

dropNoise(normalized) ==
    IF normalized = "" \/ isNoiseOnly(normalized) THEN "" ELSE normalized

normalizeTrimmedItem(trimmed) ==
    IF trimmed = "" THEN "" ELSE dropNoise(stripNestedMarkers(trimmed))

normalizeListItem(item) == normalizeTrimmedItem(Trim(item))

\* trimmed.slice(...).trim() || undefined
definedItem(item) == IF item = "" THEN << >> ELSE <<item>>

\* /^\d+[.)]\s+/.exec(trimmed), digits being the last position of the leading
\* digits of trimmed
numberedBullet(trimmed, digits) ==
    IF /\ digits >= 1
       /\ Char(trimmed, digits + 1) \in {".", ")"}
       /\ IsSpace(Char(trimmed, digits + 2))
    THEN definedItem(Trim(From(trimmed, SpanIn(trimmed, digits + 2, Spaces) + 1)))
    ELSE << >>

parseTrimmedBullet(trimmed) ==
    IF StartsWith(trimmed, "- ") \/ StartsWith(trimmed, "* ")
    THEN definedItem(Trim(From(trimmed, 3)))
    ELSE numberedBullet(trimmed, SpanIn(trimmed, 1, DigitChars))

\* parseLeadingBullet(line): << >> is undefined.
parseLeadingBullet(line) == parseTrimmedBullet(Trim(line))

RECURSIVE collapseSpaces(_)
\* s.replace(/\s{2,}/g, ' ')
collapseSpaces(s) ==
    IF s = "" THEN ""
    ELSE IF IsSpace(Char(s, 1)) /\ IsSpace(Char(s, 2))
         THEN " " \o collapseSpaces(From(s, SpanIn(s, 1, Spaces) + 1))
    ELSE Char(s, 1) \o collapseSpaces(From(s, 2))

RECURSIVE dropSpaceBeforePunctuation(_)
\* The replacement at a run of spaces that ends before position next.
dropSpacesBefore(s, next) ==
    IF Char(s, next) \in {",", ".", ";", ":", "!", "?"}
    THEN dropSpaceBeforePunctuation(From(s, next))
    ELSE Char(s, 1) \o dropSpaceBeforePunctuation(From(s, 2))

\* s.replace(/\s+([,.;:!?])/g, '$1')
dropSpaceBeforePunctuation(s) ==
    IF s = "" THEN ""
    ELSE IF IsSpace(Char(s, 1)) THEN dropSpacesBefore(s, SpanIn(s, 1, Spaces) + 1)
    ELSE Char(s, 1) \o dropSpaceBeforePunctuation(From(s, 2))

RECURSIVE collectBodyLines(_, _, _)
\* One turn of the for-loop, bullet being parseLeadingBullet(line).
collectBodyLine(lines, proseLines, listItems, bullet) ==
    IF bullet # << >>
    THEN collectBodyLines(Tail(lines), proseLines, listItems \o bullet)
    ELSE collectBodyLines(Tail(lines), Append(proseLines, Trim(Head(lines))),
                          listItems \o splitListFragments(Head(lines)))

\* The for-loop of normalizeDetailedBody over lines: the prose lines and the
\* list items it gathers.
collectBodyLines(lines, proseLines, listItems) ==
    IF lines = << >> THEN [proseLines |-> proseLines, listItems |-> listItems]
    ELSE collectBodyLine(lines, proseLines, listItems, parseLeadingBullet(Head(lines)))

\* .map(line => stripBodyLabels(line.trim()))
StripLabelsEach(raw) == [i \in 1..Len(raw) |-> stripBodyLabels(Trim(raw[i]))]

\* listItems.map(normalizeListItem)
NormalizeEach(items) == [i \in 1..Len(items) |-> normalizeListItem(items[i])]

\* What normalizeDetailedBody returns for the gathered lines.
normalizedBodyOf(collected) ==
    [paragraph |->
        Trim(dropSpaceBeforePunctuation(collapseSpaces(
            JoinWith(collected.proseLines \o collected.listItems, " ")))),
     listItems |->
        deduplicateMessages(FilterNonEmpty(NormalizeEach(collected.listItems)))]

normalizeBodyLines(lines) ==
    IF lines = << >> THEN [paragraph |-> "", listItems |-> << >>]
    ELSE normalizedBodyOf(collectBodyLines(lines, << >>, << >>))

normalizeDetailedBody(body) ==
    IF Trim(body) = "" THEN [paragraph |-> "", listItems |-> << >>]
    ELSE normalizeBodyLines(FilterNonEmpty(StripLabelsEach(Split(body, "\n"))))

MaxListItems == 6

\* listItems.slice(0, 6)
firstListItems(listItems) ==
    SubSeq(listItems, 1, IF Len(listItems) < MaxListItems THEN Len(listItems)
                         ELSE MaxListItems)

\* .map(item => `- ${item}`).join('\n')
bodyAsList(shown) == JoinWith([i \in 1..Len(shown) |-> "- " \o shown[i]], "\n")

formatDetailed(title, normalizedBody, detailsStyle) ==
    IF detailsStyle = "list"
    THEN formatCommitMessage(title, bodyAsList(firstListItems(normalizedBody.listItems)))
    ELSE formatCommitMessage(title, normalizedBody.paragraph)

sanitizeDetailedParts(parts, detailsStyle) ==
    formatDetailed(parts.title, normalizeDetailedBody(parts.body), detailsStyle)

sanitizeDetailedMessage(message, detailsStyle) ==
    sanitizeDetailedParts(splitCommitMessage(stripCodeFences(message)), detailsStyle)

sanitizeMessage(message, includeDetails, detailsStyle) ==
    IF includeDetails THEN sanitizeDetailedMessage(message, detailsStyle)
    ELSE sanitizeSimpleMessage(message)

(***************************************************************************)
(* Conventional titles.                                                    *)
(***************************************************************************)
normalizeKey(value) == ToLowerCase(Trim(value))

\* chineseCharacterPattern.test(s)
hasChineseCharacter(s) == \E i \in 1..Len(s) : IsCJK(Char(s, i))

NoConventionalMatch ==
    [ok |-> FALSE, type |-> "", scope |-> "", prefix |-> "", subject |-> ""]

\* The match for a type that ends at typeEnd, a scope whose ")" is at
\* scopeClose (0: no scope), the colon at colon and the rest as subject.
conventionalMatchOf(title, typeEnd, scopeClose, colon, subject) ==
    IF /\ typeEnd >= 1
       /\ Slice(title, colon, colon + 1) = ": "
       /\ subject # ""
       /\ \A i \in 1..Len(subject) : IsDot(Char(subject, i))
    THEN [ok |-> TRUE,
          type |-> Slice(title, 1, typeEnd),
          scope |-> IF scopeClose = 0 THEN "" ELSE Slice(title, typeEnd + 1, scopeClose),
          prefix |-> Slice(title, 1, colon + 1),
          subject |-> subject]
    ELSE NoConventionalMatch

\* The type is followed by "(": scopeEnd is the last position before the
\* first ")".
conventionalMatchScoped(title, typeEnd, scopeEnd) ==
    IF scopeEnd >= typeEnd + 2 /\ Char(title, scopeEnd + 1) = ")"
    THEN conventionalMatchOf(title, typeEnd, scopeEnd + 1, scopeEnd + 2,
                             From(title, scopeEnd + 4))
    ELSE NoConventionalMatch

conventionalMatchTyped(title, typeEnd) ==
    IF Char(title, typeEnd + 1) = "("
    THEN conventionalMatchScoped(title, typeEnd, SpanNotIn(title, typeEnd + 2, {")"}))
    ELSE conventionalMatchOf(title, typeEnd, 0, typeEnd + 1, From(title, typeEnd + 3))

\* A match of /^([a-z]+)(\([^)]+\))?: (.+)$/i, the shape shared by
\* conventionalTitlePrefixPattern and conventionalTitleTypeScopePattern.
\* No choice is left to backtracking: the letters run to the first
\* non-letter, a scope runs to the first ")".
matchConventionalTitle(title) == conventionalMatchTyped(title, SpanIn(title, 1, Letters))

isChineseNormalized(normalized) == normalized = "cn" \/ StartsWith(normalized, "zh")

isChineseLocale(locale) == isChineseNormalized(ToLowerCase(Trim(locale)))

splitOfMatch(title, match) ==
    IF ~match.ok THEN [prefix |-> "", subject |-> Trim(title)]
    ELSE [prefix |-> match.prefix, subject |-> Trim(match.subject)]

splitConventionalTitle(title) == splitOfMatch(title, matchConventionalTitle(title))

\* parseConventionalTypes(undefined): the built-in catalog, in its order.
defaultConventionalTypes ==
    <<"docs", "style", "refactor", "perf", "test", "build", "ci", "chore",
      "revert", "feat", "fix">>

\* conventionalTypeAliasMap, in its order: <<alias, canonical>>
conventionalTypeAliasMap ==
    <<<<"feature", "feat">>, <<"features", "feat">>, <<"bug", "fix">>,
      <<"bugfix", "fix">>, <<"performance", "perf">>>>

\* typeNames.map(normalizeKey)
NormalizeKeys(types) == [i \in 1..Len(types) |-> normalizeKey(types[i])]

\* The Map that sets keys[i] to types[i] for i = 1, 2, ...: the last one set
\* wins.
lookupOfKeys(types, keys) ==
    [key \in {keys[i] : i \in 1..Len(types)} |->
        types[CHOOSE i \in 1..Len(types) :
                /\ keys[i] = key
                /\ \A j \in 1..Len(types) : keys[j] = key => j <= i]]

\* The first loop of createConventionalTypeLookup.
lookupOfTypes(types) == lookupOfKeys(types, NormalizeKeys(types))

\* The normalized keys of conventionalTypeAliasMap, in its order.
aliasKeys ==
    [i \in 1..Len(conventionalTypeAliasMap) |->
        [alias |-> normalizeKey(conventionalTypeAliasMap[i][1]),
         canonical |-> normalizeKey(conventionalTypeAliasMap[i][2])]]

\* The aliases the second loop sets: those that are no key yet and whose
\* canonical name has an entry.
aliasesSet(direct, aliases) ==
    {i \in 1..Len(aliases) :
        /\ aliases[i].alias \notin DOMAIN direct
        /\ aliases[i].canonical \in DOMAIN direct
        /\ direct[aliases[i].canonical] # ""}

\* No canonical name of the alias map is itself an alias, so the entry an
\* alias gets is the entry of its canonical name after the first loop.
lookupWithAliases(direct, aliases, set) ==
    [key \in DOMAIN direct \cup {aliases[i].alias : i \in set} |->
        IF key \in DOMAIN direct THEN direct[key]
        ELSE direct[aliases[CHOOSE i \in set : aliases[i].alias = key].canonical]]

lookupOfDirect(direct, aliases) ==
    lookupWithAliases(direct, aliases, aliasesSet(direct, aliases))

\* createConventionalTypeLookup: the Map as a function on its keys.
createConventionalTypeLookup(types) == lookupOfDirect(lookupOfTypes(types), aliasKeys)

\* The lookup generateCommitMessage builds when no conventionalTypes option
\* is given: parseConventionalTypes(undefined) is the built-in catalog.
conventionalTypeLookup == createConventionalTypeLookup(defaultConventionalTypes)

\* lookup.get(key): << >> for undefined
lookupGet(lookup, key) == IF key \in DOMAIN lookup THEN <<lookup[key]>> ELSE << >>

\* resolveConventionalTypeToken with that lookup
resolveConventionalTypeToken(token) ==
    lookupGet(conventionalTypeLookup, normalizeKey(token))

leadingTypeMatchOf(s, wordEnd, matchEnd) ==
    IF wordEnd >= 1 /\ matchEnd # 0
    THEN [word |-> Slice(s, 1, wordEnd), length |-> matchEnd]
    ELSE [word |-> "", length |-> 0]

\* The end of (?:\s+|[:-]) after the letters, next being the character
\* that follows them; 0 when it does not match.
leadingTypeEnd(s, wordEnd, next) ==
    IF next \in Spaces THEN SpanIn(s, wordEnd + 1, Spaces)
    ELSE IF next \in {":", "-"} THEN wordEnd + 1
    ELSE 0

matchLeadingTypeAt(s, wordEnd) ==
    leadingTypeMatchOf(s, wordEnd, leadingTypeEnd(s, wordEnd, Char(s, wordEnd + 1)))

\* A match of /^([a-z]+)(?:\s+|[:-])/i on s: the letters, and the length of
\* the whole match (0 when there is no match).
matchLeadingType(s) == matchLeadingTypeAt(s, SpanIn(s, 1, Letters))

inferFromMatch(match) ==
    IF match.length = 0 THEN << >> ELSE resolveConventionalTypeToken(match.word)

inferConventionalTypeFromSubject(subject) == inferFromMatch(matchLeadingType(Trim(subject)))

stripResolvedTypeWord(subject, typeName, stripped, resolvedLeadingType) ==
    IF stripped = "" THEN subject
    ELSE IF resolvedLeadingType = << >> THEN subject
    ELSE IF normalizeKey(resolvedLeadingType[1]) # normalizeKey(typeName) THEN subject
    ELSE stripped

stripMatchedTypeWord(subject, typeName, trimmedSubject, leadingTypeMatch) ==
    IF leadingTypeMatch.length = 0 THEN subject
    ELSE stripResolvedTypeWord(subject, typeName,
            Trim(From(trimmedSubject, leadingTypeMatch.length + 1)),
            resolveConventionalTypeToken(leadingTypeMatch.word))

stripTrimmedTypeWord(subject, typeName, trimmedSubject) ==
    stripMatchedTypeWord(subject, typeName, trimmedSubject, matchLeadingType(trimmedSubject))

stripLeadingTypeWord(subject, typeName) ==
    stripTrimmedTypeWord(subject, typeName, Trim(subject))

\* `${nextType}${rawScope}: ${nextSubject || subject}`
harmonizedTitle(rawScope, subject, nextType, nextSubject) ==
    nextType \o rawScope \o ": " \o (IF nextSubject # "" THEN nextSubject ELSE subject)

harmonizeWithType(rawScope, subject, nextType) ==
    harmonizedTitle(rawScope, subject, nextType, stripLeadingTypeWord(subject, nextType))

\* inferredType || (resolveConventionalTypeToken(rawType) || rawType.toLowerCase())
nextTypeOf(rawType, resolved, inferredType) ==
    IF inferredType # << >> THEN inferredType[1]
    ELSE IF resolved # << >> THEN resolved[1]
    ELSE ToLowerCase(rawType)

harmonizeSubject(title, rawType, rawScope, subject) ==
    IF subject = "" THEN title
    ELSE harmonizeWithType(rawScope, subject,
            nextTypeOf(rawType, resolveConventionalTypeToken(rawType),
                       inferConventionalTypeFromSubject(subject)))

harmonizeMatch(title, match) ==
    IF ~match.ok THEN title
    ELSE harmonizeSubject(title, match.type, match.scope, Trim(match.subject))

harmonizeConventionalTitle(title) == harmonizeMatch(title, matchConventionalTitle(title))

\* The { title, body } the post-processing steps start from.
titleAndBody(message, includeDetails) ==
    IF includeDetails THEN splitCommitMessage(message)
    ELSE [title |-> Trim(message), body |-> ""]

\* includeDetails ? formatCommitMessage(title, body) : title
withTitle(title, body, includeDetails) ==
    IF includeDetails THEN formatCommitMessage(title, body) ELSE title

harmonizeParts(parts, includeDetails) ==
    withTitle(harmonizeConventionalTitle(parts.title), parts.body, includeDetails)

harmonizeConventionalMessage(message, includeDetails) ==
    harmonizeParts(titleAndBody(message, includeDetails), includeDetails)

scopelessMessage(message, body, includeDetails, normalizedType, normalizedSubject) ==
    IF normalizedType = "" \/ normalizedSubject = "" THEN message
    ELSE withTitle(normalizedType \o ": " \o normalizedSubject, body, includeDetails)

stripScopeOfMatch(message, body, includeDetails, match) ==
    IF ~match.ok THEN message
    ELSE scopelessMessage(message, body, includeDetails,
                          ToLowerCase(Trim(match.type)), Trim(match.subject))

stripScopeOfParts(message, parts, includeDetails) ==
    stripScopeOfMatch(message, parts.body, includeDetails,
                      matchConventionalTitle(parts.title))

stripConventionalScopeFromMessage(message, includeDetails) ==
    stripScopeOfParts(message, titleAndBody(message, includeDetails), includeDetails)

\* [^)\s][^)]*\):\s*\S from the "(" at typeEnd + 1 on, scopeEnd being the
\* last position before the first ")".
scopedTitleRest(title, typeEnd, scopeEnd) ==
    /\ Char(title, typeEnd + 2) \notin Spaces \cup {")", ""}
    /\ Slice(title, scopeEnd + 1, scopeEnd + 2) = "):"
    /\ SpanIn(title, scopeEnd + 3, Spaces) + 1 <= Len(title)

scopedTitleTyped(title, typeEnd) ==
    /\ typeEnd >= 1
    /\ Char(title, typeEnd + 1) = "("
    /\ scopedTitleRest(title, typeEnd, SpanNotIn(title, typeEnd + 2, {")"}))

\* conventionalScopedTitlePattern.test(title):
\* /^[a-z]+\([^)\s][^)]*\):\s*\S/i
matchesScopedTitle(title) == scopedTitleTyped(title, SpanIn(title, 1, Letters))

getMessageTitle(message, includeDetails) ==
    IF includeDetails THEN splitCommitMessage(message).title ELSE Trim(message)

hasConventionalScope(message, includeDetails) ==
    matchesScopedTitle(getMessageTitle(message, includeDetails))

\* scope\s*> from position word on
scopeTagCloses(f, word, close) ==
    /\ ToLowerCase(Slice(f, word, word + 4)) = "scope"
    /\ Char(f, close) = ">"

scopeTagAt(f, word) == scopeTagCloses(f, word, SpanIn(f, word + 5, Spaces) + 1)

\* /<\s*scope\s*>/i.test(f)
hasScopePlaceholder(f) ==
    \E i \in 1..Len(f) : Char(f, i) = "<" /\ scopeTagAt(f, SpanIn(f, i + 1, Spaces) + 1)

\* supportsConventionalScope(conventionalFormat); << >> is undefined.
supportsConventionalScope(conventionalFormat) ==
    IF conventionalFormat = << >> THEN TRUE
    ELSE IF Trim(conventionalFormat[1]) = "" THEN TRUE
    ELSE hasScopePlaceholder(conventionalFormat[1])

(***************************************************************************)
(* Locale enforcement.                                                     *)
(***************************************************************************)
\* subject.length > 0 && !chineseCharacterPattern.test(subject)
lacksChinese(subject) == subject # "" /\ ~hasChineseCharacter(subject)

shouldRewriteTitleToLocale(title, locale) ==
    IF ~isChineseLocale(locale) THEN FALSE
    ELSE lacksChinese(splitConventionalTitle(title).subject)

(***************************************************************************)
(* The response body of a chat-completion call.                            *)
(***************************************************************************)
CR == "CR"
LF == "LF"
Whitespace == {CR, LF}

NoStr == << >>
Str(s) == <<s>>
IsStr(v) == Len(v) = 1

\* One entry of a frame's "choices" array.  index is << >> when the entry has
\* no numeric index; delta tells whether the entry has a delta object.
Entry(index, content, reasoning_content, reasoning) ==
    [index |-> index, delta |-> TRUE, content |-> content,
     reasoning_content |-> reasoning_content, reasoning |-> reasoning]

\* U+00E9 and U+FFFD in decoded text.
EAcute == "@"
Replacement == "?"

\* What a line of the body is, by name.  kind says what the code sees in it:
\*   "chunk"     data: {json object}, choices as listed (possibly none)
\*   "error"     data: {"error": {"message": ...}}
\*   "null"      data: null          (JSON.parse succeeds, the value is null)
\*   "malformed" data: {"choices": [ (JSON.parse throws)
\*   "done"      data: [DONE]
\*   "empty"     data:
\*   "comment"   : keep-alive         (no data: prefix)
\*   "json"      {"choices": [...]}   (a whole non-streamed JSON response)
LineText(name) ==
    CASE name = "Ca"   -> [kind |-> "chunk", choices |-> <<Entry(<<0>>, Str("a"), NoStr, NoStr)>>]
      [] name = "Cb1"  -> [kind |-> "chunk", choices |-> <<Entry(<<1>>, Str("b"), NoStr, NoStr)>>]
      [] name = "Cq"   -> [kind |-> "chunk", choices |-> <<Entry(<< >>, Str("c"), NoStr, Str("q"))>>]
      [] name = "Rr"   -> [kind |-> "chunk", choices |-> <<Entry(<<0>>, Str(""), Str("r"), NoStr)>>]
      [] name = "M2"   -> [kind |-> "chunk", choices |-> <<Entry(<<1>>, Str("y"), NoStr, NoStr),
                                                            Entry(<<0>>, Str("x"), Str("s"), Str("t"))>>]
      [] name = "NoCh" -> [kind |-> "chunk", choices |-> << >>]
      [] name = "Err"  -> [kind |-> "error", choices |-> << >>]
      [] name = "Null" -> [kind |-> "null", choices |-> << >>]
      [] name = "Bad"  -> [kind |-> "malformed", choices |-> << >>]
      [] name = "Done" -> [kind |-> "done", choices |-> << >>]
      [] name = "Empty" -> [kind |-> "empty", choices |-> << >>]
      [] name = "Cmt"  -> [kind |-> "comment", choices |-> << >>]
      [] name = "Json" -> [kind |-> "json", choices |-> <<Entry(<<0>>, Str("j"), NoStr, NoStr)>>]
      [] name = "Ce"   -> [kind |-> "chunk", choices |-> <<Entry(<<0>>, Str(EAcute), NoStr, NoStr)>>]
      [] OTHER         -> [kind |-> "part", choices |-> << >>]

\* The lines a response body is made of here.  "Ce" is the line
\*   data: {"choices":[{"index":0,"delta":{"content":"@"}}]}
\* whose content is the one character U+00E9.
LineNames ==
    {"Ca", "Cb1", "Cq", "Rr", "M2", "NoCh", "Err", "Null", "Bad", "Done", "Json", "Ce"}

\* The bytes of the line "Ce" up to and with C3, the first byte of its
\* character, and its bytes from A9, the second byte, on.
OpenC3 == "OpenC3"
A9Close == "A9Close"
\* What these bytes are when they are decoded apart: the text up to the
\* character and then U+FFFD, and U+FFFD and then the text after the
\* character.
OpenDamaged == "Open?"
DamagedClose == "?Close"

\* The bytes of a line, as tokens.
BytesOfLine(name) == IF name = "Ce" THEN <<OpenC3, A9Close>> ELSE <<name>>

RECURSIVE toString(_)
\* buffer.toString(): the bytes decoded as UTF-8.  C3 A9 is U+00E9; a C3
\* without its second byte and an A9 without its first are not valid UTF-8
\* and give U+FFFD each.
toString(bytes) ==
    IF bytes = << >> THEN << >>
    ELSE IF Head(bytes) = OpenC3 /\ Len(bytes) >= 2 /\ bytes[2] = A9Close
         THEN <<"Ce">> \o toString(Tail(Tail(bytes)))
    ELSE IF Head(bytes) = OpenC3 THEN <<OpenDamaged>> \o toString(Tail(bytes))
    ELSE IF Head(bytes) = A9Close THEN <<DamagedClose>> \o toString(Tail(bytes))
    ELSE <<Head(bytes)>> \o toString(Tail(bytes))

\* The line ends a server may put after a line: a single line feed (the next
\* line belongs to the same event), a blank line, a blank line with CR LF.
LineEnds == {<<LF>>, <<LF, LF>>, <<CR, LF, CR, LF>>}
\* The stream may also end right after its last line.
LastLineEnds == LineEnds \cup {<< >>}

MaxFrames == 2

RECURSIVE BodyOf(_, _)
\* The body made of the lines f[1..n], each followed by its line end.
BodyOf(f, n) ==
    IF n = 0 THEN << >> ELSE BodyOf(f, n - 1) \o BytesOfLine(f[n][1]) \o f[n][2]

Bodies ==
    {<< >>} \cup
    UNION {{BodyOf(f, n - 1) \o BytesOfLine(last[1]) \o last[2] :
                f \in [1..(n - 1) -> LineNames \X LineEnds],
                last \in LineNames \X LastLineEnds} : n \in 1..MaxFrames}

(***************************************************************************)
(* Splitting received text into lines (String.prototype.trim and split).   *)
(***************************************************************************)
RECURSIVE TrimStartTokens(_)
TrimStartTokens(t) ==
    IF t # << >> /\ Head(t) \in Whitespace THEN TrimStartTokens(Tail(t)) ELSE t

RECURSIVE TrimEndTokens(_)
TrimEndTokens(t) ==
    IF t # << >> /\ t[Len(t)] \in Whitespace
    THEN TrimEndTokens(SubSeq(t, 1, Len(t) - 1)) ELSE t

\* String.prototype.trim on a token sequence.
TrimTokens(t) == TrimEndTokens(TrimStartTokens(t))

RECURSIVE SplitOnLF(_, _)
\* text.split('\n'): cur is the line being read.
SplitOnLF(t, cur) ==
    IF t = << >> THEN <<cur>>
    ELSE IF Head(t) = LF THEN <<cur>> \o SplitOnLF(Tail(t), << >>)
    ELSE SplitOnLF(Tail(t), Append(cur, Head(t)))

RECURSIVE SplitOnCRLF(_, _)
\* text.split(/\r?\n/): a CR right before the LF belongs to the separator.
SplitOnCRLF(t, cur) ==
    IF t = << >> THEN <<cur>>
    ELSE IF Head(t) = LF THEN <<cur>> \o SplitOnCRLF(Tail(t), << >>)
    ELSE IF Head(t) = CR /\ Len(t) >= 2 /\ t[2] = LF
         THEN <<cur>> \o SplitOnCRLF(Tail(Tail(t)), << >>)
    ELSE SplitOnCRLF(Tail(t), Append(cur, Head(t)))

\* The two halves of the line "Ce", decoded apart and put together again by
\* the buffer, are that line with the content U+FFFD U+FFFD.
damagedLine ==
    [kind |-> "chunk",
     choices |-> <<Entry(<<0>>, Str(Replacement \o Replacement), NoStr, NoStr)>>]

\* A raw line, as both loops read it: trim it, require the data: prefix, drop
\* an empty payload and [DONE], JSON.parse the rest.  The result is << >> when
\* the line is skipped (also when JSON.parse throws), else <<payload>>.
\* A line that still holds a CR between two texts is "data: x\rdata: y",
\* which has the prefix but is no JSON, and so is a half of "Ce" without the
\* other.
parsePayload(rawLine) ==
    LET line == TrimTokens(rawLine) IN
    IF line = << >> THEN << >>
    ELSE IF line = <<OpenDamaged, DamagedClose>> THEN <<damagedLine>>
    ELSE IF LineText(Head(line)).kind \in {"comment", "json"} THEN << >>
    ELSE IF Len(line) > 1 THEN << >>
    ELSE IF LineText(line[1]).kind \in {"empty", "done", "malformed", "part"} THEN << >>
    ELSE <<LineText(line[1])>>

(***************************************************************************)
(* Live emission: emitStreamEventFromPayload and handleLiveChunk.          *)
(***************************************************************************)
Event(kind, text) == [kind |-> kind, text |-> text]

\* A faulty variant of emitEntry that emits the content of a delta before its
\* reasoning text.
emitEntryContentFirst(choice) ==
    IF ~choice.delta THEN << >>
    ELSE
        LET reasoningContent ==
                IF IsStr(choice.reasoning_content) THEN choice.reasoning_content[1]
                ELSE IF IsStr(choice.reasoning) THEN choice.reasoning[1]
                ELSE ""
        IN  (IF IsStr(choice.content) /\ choice.content[1] # ""
             THEN <<Event("content", choice.content[1])>> ELSE << >>)
            \o (IF reasoningContent # "" THEN <<Event("reasoning", reasoningContent)>> ELSE << >>)

\* The events of one choice entry: the reasoning text (reasoning_content when
\* it is a string, else reasoning when that is a string, else '') when it is
\* not empty, then the content when it is a non-empty string.
emitEntry(choice) ==
    IF ~choice.delta THEN << >>
    ELSE
        LET reasoningContent ==
                IF IsStr(choice.reasoning_content) THEN choice.reasoning_content[1]
                ELSE IF IsStr(choice.reasoning) THEN choice.reasoning[1]
                ELSE ""
        IN  (IF reasoningContent # "" THEN <<Event("reasoning", reasoningContent)>> ELSE << >>)
            \o (IF IsStr(choice.content) /\ choice.content[1] # ""
                THEN <<Event("content", choice.content[1])>> ELSE << >>)

RECURSIVE emitChoices(_)
emitChoices(choices) ==
    IF choices = << >> THEN << >>
    ELSE emitEntry(Head(choices)) \o emitChoices(Tail(choices))

\* emitStreamEventFromPayload, called inside try/catch: reading .choices of
\* null throws and the catch drops the frame; an object without a choices
\* array gives no event.
emitStreamEventFromPayload(onStreamEvent, payload) ==
    IF ~onStreamEvent THEN << >>
    ELSE IF payload.kind = "null" THEN << >>
    ELSE emitChoices(payload.choices)

RECURSIVE ReplaceCRLF(_)
\* chunk.replace(/\r\n/g, '\n')
ReplaceCRLF(chunk) ==
    IF chunk = << >> THEN << >>
    ELSE IF Head(chunk) = CR /\ Len(chunk) >= 2 /\ chunk[2] = LF
         THEN <<LF>> \o ReplaceCRLF(Tail(Tail(chunk)))
    ELSE <<Head(chunk)>> \o ReplaceCRLF(Tail(chunk))

RECURSIVE IndexOfLFLF(_, _)
\* buffer.indexOf('\n\n'), 1-based from position i; 0 when there is none.
IndexOfLFLF(buf, i) ==
    IF i + 1 > Len(buf) THEN 0
    ELSE IF buf[i] = LF /\ buf[i + 1] = LF THEN i
    ELSE IndexOfLFLF(buf, i + 1)

RECURSIVE emitRawEvent(_, _)
\* The for-loop over rawEvent.split('\n').
emitRawEvent(onStreamEvent, lines) ==
    IF lines = << >> THEN << >>
    ELSE LET payload == parsePayload(Head(lines)) IN
         (IF payload = << >> THEN << >>
          ELSE emitStreamEventFromPayload(onStreamEvent, payload[1]))
         \o emitRawEvent(onStreamEvent, Tail(lines))

RECURSIVE drainLiveBuffer(_, _, _)
\* The while-loop of handleLiveChunk: cut every complete event (text up to a
\* blank line) off the buffer and emit it.  Gives the buffer left and the
\* events emitted.
drainLiveBuffer(onStreamEvent, buf, emitted) ==
    LET separatorIndex == IndexOfLFLF(buf, 1) IN
    IF separatorIndex = 0 THEN [buffer |-> buf, emitted |-> emitted]
    ELSE LET rawEvent == SubSeq(buf, 1, separatorIndex - 1)
             rest == SubSeq(buf, separatorIndex + 2, Len(buf))
         IN  drainLiveBuffer(onStreamEvent, rest,
                 emitted \o emitRawEvent(onStreamEvent, SplitOnLF(rawEvent, << >>)))

\* handleLiveChunk(chunk) on the buffer buf.
handleLiveChunk(onStreamEvent, buf, chunk) ==
    IF ~onStreamEvent THEN [buffer |-> buf, emitted |-> << >>]
    ELSE drainLiveBuffer(onStreamEvent, buf \o ReplaceCRLF(chunk), << >>)

(***************************************************************************)
(* Final aggregation: the rest of createChatCompletion once the response   *)
(* has ended.                                                              *)
(***************************************************************************)
Failure(error) == [kind |-> "error", error |-> error, choices |-> << >>]
Success(choices) == [kind |-> "ok", error |-> "", choices |-> choices]
NoCompletion == [kind |-> "none", error |-> "", choices |-> << >>]

RECURSIVE collectPayloads(_)
\* The loop that fills streamPayloads.
collectPayloads(lines) ==
    IF lines = << >> THEN << >>
    ELSE parsePayload(Head(lines)) \o collectPayloads(Tail(lines))

RECURSIVE findStreamError(_)
\* streamPayloads.find(payload => typeof payload.error === 'object' && ...):
\* "TypeError" when it reads .error of null before it finds an error frame,
\* "found" when it finds one, "none" otherwise.
findStreamError(payloads) ==
    IF payloads = << >> THEN "none"
    ELSE IF Head(payloads).kind = "null" THEN "TypeError"
    ELSE IF Head(payloads).kind = "error" THEN "found"
    ELSE findStreamError(Tail(payloads))

\* The Map streamChoices is held as a sequence of records in insertion order.
RECURSIVE PositionOfIndex(_, _, _)
PositionOfIndex(choices, index, i) ==
    IF i > Len(choices) THEN 0
    ELSE IF choices[i].index = index THEN i
    ELSE PositionOfIndex(choices, index, i + 1)

\* A faulty variant of accumulateEntry that forgets the parts already held
\* for the index of the entry.
accumulateEntryForgetting(streamChoices, choice) ==
    LET index == IF Len(choice.index) = 1 THEN choice.index[1] ELSE 0
        at == PositionOfIndex(streamChoices, index, 1)
        fresh == [index |-> index,
                  contentParts |->
                      IF choice.delta /\ IsStr(choice.content) THEN <<choice.content[1]>> ELSE << >>,
                  reasoningParts |->
                      (IF choice.delta /\ IsStr(choice.reasoning_content)
                       THEN <<choice.reasoning_content[1]>> ELSE << >>)
                      \o (IF choice.delta /\ IsStr(choice.reasoning)
                          THEN <<choice.reasoning[1]>> ELSE << >>)]
    IN  IF at # 0 THEN [streamChoices EXCEPT ![at] = fresh]
        ELSE Append(streamChoices, fresh)

\* One pass of the inner loop: streamChoices after the entry choice.
accumulateEntry(streamChoices, choice) ==
    LET index == IF Len(choice.index) = 1 THEN choice.index[1] ELSE 0
        at == PositionOfIndex(streamChoices, index, 1)
        existing == IF at # 0 THEN streamChoices[at]
                    ELSE [index |-> index, contentParts |-> << >>, reasoningParts |-> << >>]
        withContent ==
            IF choice.delta /\ IsStr(choice.content)
            THEN [existing EXCEPT !.contentParts = Append(@, choice.content[1])]
            ELSE existing
        withReasoningContent ==
            IF choice.delta /\ IsStr(choice.reasoning_content)
            THEN [withContent EXCEPT !.reasoningParts = Append(@, choice.reasoning_content[1])]
            ELSE withContent
        withReasoning ==
            IF choice.delta /\ IsStr(choice.reasoning)
            THEN [withReasoningContent EXCEPT !.reasoningParts = Append(@, choice.reasoning[1])]
            ELSE withReasoningContent
    IN  IF at # 0 THEN [streamChoices EXCEPT ![at] = withReasoning]
        ELSE Append(streamChoices, withReasoning)

RECURSIVE accumulateEntries(_, _)
accumulateEntries(streamChoices, choices) ==
    IF choices = << >> THEN streamChoices
    ELSE accumulateEntries(accumulateEntry(streamChoices, Head(choices)), Tail(choices))

RECURSIVE accumulatePayloads(_, _)
\* The outer loop over streamPayloads.
accumulatePayloads(streamChoices, payloads) ==
    IF payloads = << >> THEN streamChoices
    ELSE accumulatePayloads(accumulateEntries(streamChoices, Head(payloads).choices),
                            Tail(payloads))

RECURSIVE InsertByIndex(_, _)
InsertByIndex(sorted, choice) ==
    IF sorted = << >> THEN <<choice>>
    ELSE IF choice.index < Head(sorted).index THEN <<choice>> \o sorted
    ELSE <<Head(sorted)>> \o InsertByIndex(Tail(sorted), choice)

RECURSIVE SortByIndex(_)
\* .sort((a, b) => a.index - b.index), a stable sort.
SortByIndex(choices) ==
    IF choices = << >> THEN << >>
    ELSE InsertByIndex(SortByIndex(SubSeq(choices, 1, Len(choices) - 1)),
                       choices[Len(choices)])

\* The .map that builds combinedChoices: message.content is the joined
\* content parts, message.reasoning_content is set when the joined reasoning
\* parts are not empty.  (role and finish_reason are not modelled.)
combineChoice(choice) ==
    LET reasoningContent == Join(choice.reasoningParts) IN
    [index |-> choice.index,
     content |-> Str(Join(choice.contentParts)),
     reasoning_content |-> IF reasoningContent # "" THEN Str(reasoningContent) ELSE NoStr]

combinedChoices(payloads) ==
    LET sorted == SortByIndex(accumulatePayloads(<< >>, payloads)) IN
    [i \in 1..Len(sorted) |-> combineChoice(sorted[i])]

\* A non-streamed JSON response: its choices as they are.  The index of a
\* choice that has none stays undefined (<< >>).
jsonChoices(choices) ==
    [i \in 1..Len(choices) |->
        [index |-> IF Len(choices[i].index) = 1 THEN choices[i].index[1] ELSE << >>,
         content |-> choices[i].content,
         reasoning_content |-> choices[i].reasoning_content]]

\* createChatCompletion from the status check on: what it returns or throws
\* for the status and the whole body received.
completeResponse(statusOk, received) ==
    LET trimmed == TrimTokens(received)
        streamPayloads == collectPayloads(SplitOnCRLF(trimmed, << >>))
        streamError == findStreamError(streamPayloads)
        combined == combinedChoices(streamPayloads)
    IN  IF ~statusOk THEN Failure("API Error: status")
        ELSE IF trimmed = << >> THEN Failure("API Error: Empty response body")
        ELSE IF LineText(Head(trimmed)).kind = "json"
             THEN IF Len(trimmed) = 1
                  THEN Success(jsonChoices(LineText(trimmed[1]).choices))
                  ELSE Failure("SyntaxError")
        ELSE IF streamPayloads = << >>
             THEN Failure("API Error: Unable to parse streamed response")
        ELSE IF streamError = "TypeError" THEN Failure("TypeError")
        ELSE IF streamError = "found" THEN Failure("API Error: stream error")
        ELSE IF combined = << >>
             THEN Failure("API Error: Streamed response did not include any choices")
        ELSE Success(combined)

(***************************************************************************)
(* One call of createChatCompletion as a state machine.                    *)
(***************************************************************************)
\* Every call site passes a callback (generateCommitMessage wraps the
\* caller's optional one), so onStreamEvent is always supplied.
OnStreamEventSupplied == TRUE

StreamInit ==
    /\ wire \in Bodies
    /\ data = << >>
    /\ liveStreamBuffer = << >>
    /\ events = << >>
    /\ spc = "receiving"
    /\ completion = NoCompletion
    /\ options = << >> /\ gpc = "unused" /\ pass = 0
    /\ completionResponses = << >> /\ messages = << >> /\ rewriteCompletions = << >>
    /\ localizedMessages = << >> /\ passMessages = << >> /\ result = << >>
    /\ answers = << >> /\ rewriteAnswers = << >>
    /\ JudgeUnused
    /\ CliUnused
    /\ PureUnused
    /\ ShellUnused

\* response.on('data'): the next chunk of any size arrives; httpsPost keeps
\* its bytes and hands chunk.toString() to handleLiveChunk.
ResponseData ==
    /\ spc = "receiving"
    /\ \E n \in 1..Len(wire) :
        LET chunk == SubSeq(wire, 1, n)
            live == handleLiveChunk(OnStreamEventSupplied, liveStreamBuffer,
                                    toString(chunk))
        IN  /\ wire' = SubSeq(wire, n + 1, Len(wire))
            /\ data' = data \o chunk
            /\ liveStreamBuffer' = live.buffer
            /\ events' = events \o live.emitted
    /\ UNCHANGED <<spc, completion, gvars, xvars>>

\* response.on('end'): httpsPost resolves with Buffer.concat(body).toString()
\* and createChatCompletion runs to its end.
ResponseEnd ==
    /\ spc = "receiving"
    /\ wire = << >>
    /\ \E statusOk \in BOOLEAN :
        completion' = completeResponse(statusOk, toString(data))
    /\ spc' = "done"
    /\ UNCHANGED <<wire, data, liveStreamBuffer, events, gvars, xvars>>

\* request.on('error') and request.on('timeout'): httpsPost rejects and so
\* does createChatCompletion; nothing more of the body is delivered.
RequestFails ==
    /\ spc = "receiving"
    /\ \E error \in {"ENOTFOUND", "ECONNREFUSED", "Time out error"} :
        completion' = Failure(error)
    /\ spc' = "done"
    /\ wire' = << >>
    /\ UNCHANGED <<data, liveStreamBuffer, events, gvars, xvars>>

StreamNext == ResponseData \/ ResponseEnd \/ RequestFails

SpecStream == StreamInit /\ [][StreamNext]_vars

(***************************************************************************)
(* Locale rewrite of one title.                                            *)
(***************************************************************************)
\* A choice of a completion with the message content c (<< >> when the
\* content is no string).
Choice(index, c) == [index |-> index, content |-> c, reasoning_content |-> NoStr]

\* completion.choices.map(choice => choice.message?.content)
\*     .find(content => typeof content === 'string'); << >> is undefined.
RECURSIVE firstStringContent(_)
firstStringContent(choices) ==
    IF choices = << >> THEN << >>
    ELSE IF IsStr(Head(choices).content) THEN Head(choices).content
    ELSE firstStringContent(Tail(choices))

\* `${prefix}${sanitizedSubject || subject}`
prefixedTitle(parts, sanitizedSubject) ==
    parts.prefix \o (IF sanitizedSubject # "" THEN sanitizedSubject ELSE parts.subject)

\* sanitized.replace(conventionalTitlePrefixPattern, '$2').trim()
subjectOfRewrite(sanitized, match) ==
    Trim(IF match.ok THEN match.subject ELSE sanitized)

\* A faulty variant of rewriteOfSanitized that takes the rewritten text as the
\* title, whatever prefix the title had.
rewriteOfSanitizedWhole(title, parts, sanitized) ==
    IF sanitized = "" THEN title ELSE sanitized

rewriteOfSanitized(title, parts, sanitized) ==
    IF sanitized = "" THEN title
    ELSE IF parts.prefix = "" THEN sanitized
    ELSE prefixedTitle(parts, subjectOfRewrite(sanitized, matchConventionalTitle(sanitized)))

rewriteOfContent(title, parts, rewritten) ==
    IF rewritten = << >> THEN title
    ELSE IF rewritten[1] = "" THEN title
    ELSE rewriteOfSanitized(title, parts, sanitizeSimpleMessage(rewritten[1]))

\* rewriteTitleToLocale after its completion resolved with the choices given.
rewriteTitleToLocale(title, choices) ==
    rewriteOfContent(title, splitConventionalTitle(title), firstStringContent(choices))

\* Whether enforceTitleLocale issues a rewrite request for the message.
needsRewrite(message, includeDetails, locale) ==
    shouldRewriteTitleToLocale(titleAndBody(message, includeDetails).title, locale)

\* The try block of enforceTitleLocale and its catch.
enforceOfParts(message, parts, includeDetails, response) ==
    IF response.kind # "ok" THEN message
    ELSE withTitle(rewriteTitleToLocale(parts.title, response.choices), parts.body,
                   includeDetails)

\* enforceTitleLocale for a message that needs the rewrite, once the rewrite
\* completion settled as response (a Success or a Failure).
enforceTitleLocale(message, includeDetails, response) ==
    enforceOfParts(message, titleAndBody(message, includeDetails), includeDetails, response)

(***************************************************************************)
(* generateCommitMessage as a state machine.  A completion request is one  *)
(* createChatCompletion call; here only what it resolves to matters.       *)
(***************************************************************************)
MaxCompletions == 2

\* The texts the model may answer a generation request with.
RawContents ==
    {"fix: add x",
     "\" Fix(api): add x \"\n\nBody: adds x.",
     ""}

\* What a generation request may settle as: one choice with a text, three
\* choices, or a failure of createChatCompletion.  The three choices are those
\* of a JSON body whose "choices" array is not in the order of the indexes and
\* holds a choice whose content is no string: createChatCompletion returns
\* the parsed body as it is (openai.ts 222-224), while it sorts the choices
\* of a streamed body by index (329).
GenerationResponses ==
    {Success(<<Choice(0, Str(raw))>>) : raw \in RawContents}
    \cup {Success(<<Choice(2, NoStr), Choice(1, Str("ci(a): #")),
                    Choice(0, Str("docs(a): #"))>>),
          Failure("Time out error")}

\* What a title-rewrite request may settle as.
RewriteResponses ==
    {Success(<<Choice(0, Str(text))>>) : text \in {"", "feat: #x", "feat y"}}
    \cup {Failure("Time out error")}

ConventionalFormats == {<< >>, <<"<type>: <subject>">>}

\* The options of a call.  The conventionalFormat and conventionalScope
\* options are read for the conventional type only.
OptionSets ==
    {o \in [type : {"", "conventional"},
            locale : {"en", "zh-CN"},
            completions : 1..MaxCompletions,
            includeDetails : BOOLEAN,
            detailsStyle : {"paragraph"},
            conventionalFormat : ConventionalFormats,
            conventionalScope : {<< >>, <<TRUE>>, <<FALSE>>}] :
        o.type = "" => o.conventionalFormat = << >> /\ o.conventionalScope = << >>}

\* generateCommitMessage: enforceConventionalScope
\* (resolvedOptions.conventionalScope ?? false)
enforceConventionalScope(o) ==
    /\ o.type = "conventional"
    /\ (IF o.conventionalScope = << >> THEN FALSE ELSE o.conventionalScope[1])
    /\ supportsConventionalScope(o.conventionalFormat)

\* Math.max(1, completions)
requestCount(o) == IF o.completions < 1 THEN 1 ELSE o.completions

\* requestMessages from the awaited completions to messages: the content of
\* every choice of every completion, in array order, sanitized; the empty
\* ones dropped.
sanitizedMessages(o, responses) ==
    LET choices == Flatten([i \in 1..Len(responses) |-> responses[i].choices])
        texts == Flatten([i \in 1..Len(choices) |->
                    IF IsStr(choices[i].content)
                    THEN <<sanitizeMessage(choices[i].content[1], o.includeDetails,
                                           o.detailsStyle)>>
                    ELSE << >>])
    IN  FilterNonEmpty(texts)

\* requestMessages from localizedMessages to scopeNormalizedMessages.
scopeNormalizedMessages(o, localized) ==
    LET harmonized ==
            [i \in 1..Len(localized) |->
                IF o.type = "conventional"
                THEN harmonizeConventionalMessage(localized[i], o.includeDetails)
                ELSE localized[i]]
    IN  [i \in 1..Len(harmonized) |->
            IF o.type = "conventional" /\ o.conventionalScope = <<FALSE>>
            THEN stripConventionalScopeFromMessage(harmonized[i], o.includeDetails)
            ELSE harmonized[i]]

\* What requestMessages returns for the localized messages.
requestMessagesResult(o, localized) ==
    deduplicateMessages(FilterNonEmpty(scopeNormalizedMessages(o, localized)))

\* messages.filter(message => hasConventionalScope(message, includeDetails))
scopedMessages(o, msgs) ==
    LET Scoped(m) == hasConventionalScope(m, o.includeDetails) IN SelectSeq(msgs, Scoped)

Pending(n) == [i \in 1..n |-> NoCompletion]

\* The first position of the array that holds nothing yet.
FirstUnsettled(settled, unsettled) ==
    CHOOSE k \in 1..Len(settled) :
        settled[k] = unsettled /\ \A h \in 1..(k - 1) : settled[h] # unsettled

\* A faulty variant of placeByPosition that fills the array in the order in
\* which the promises settle.
placeByArrival(settled, i, value) ==
    [settled EXCEPT ![FirstUnsettled(settled, settled[i])] = value]

\* Promise.all: the value a promise resolves to is put at the position the
\* promise has in the array given, whenever it settles.
placeByPosition(settled, i, value) ==
    [settled EXCEPT ![i] = value]

\* A variant of the wait for the completions that goes on with the first
\* completion that resolves.
firstResolved(responses) == TRUE

\* await Promise.all(completions): every completion request has resolved
allResolved(responses) == \A k \in 1..Len(responses) : responses[k] # NoCompletion

\* generateCommitMessage returns list.
Return(list, responses, msgs, localized, rewrites) ==
    /\ gpc' = "returned"
    /\ result' = list
    /\ completionResponses' = responses
    /\ messages' = msgs
    /\ localizedMessages' = localized
    /\ rewriteCompletions' = rewrites
    /\ UNCHANGED pass

\* A faulty variant of afterRequestMessages that starts the second pass
\* whether or not scope enforcement is active.
afterRequestMessagesRetryingAlways(returned, responses, msgs, localized, rewrites) ==
    \E scoped \in {scopedMessages(options, returned)} :
    /\ passMessages' = Append(passMessages, returned)
    /\ IF scoped # << >>
       THEN Return(scoped, responses, msgs, localized, rewrites)
       ELSE IF pass = 1
       THEN /\ gpc' = "generating"
            /\ pass' = 2
            /\ completionResponses' = Pending(requestCount(options))
            /\ messages' = << >>
            /\ localizedMessages' = << >>
            /\ rewriteCompletions' = << >>
            /\ UNCHANGED result
       ELSE Return(returned, responses, msgs, localized, rewrites)

\* A faulty variant of afterRequestMessages that falls back to the list of
\* the first pass when the second pass has no scoped title either.
afterRequestMessagesFirstPassFallback(returned, responses, msgs, localized, rewrites) ==
    \E scoped \in {scopedMessages(options, returned)} :
    /\ passMessages' = Append(passMessages, returned)
    /\ IF pass = 1 /\ ~enforceConventionalScope(options)
       THEN Return(returned, responses, msgs, localized, rewrites)
       ELSE IF scoped # << >>
       THEN Return(scoped, responses, msgs, localized, rewrites)
       ELSE IF pass = 1
       THEN /\ gpc' = "generating"
            /\ pass' = 2
            /\ completionResponses' = Pending(requestCount(options))
            /\ messages' = << >>
            /\ localizedMessages' = << >>
            /\ rewriteCompletions' = << >>
            /\ UNCHANGED result
       ELSE Return(passMessages[1], responses, msgs, localized, rewrites)

\* The code of generateCommitMessage after an awaited requestMessages call
\* returned the list returned: it returns, or starts the second pass.
afterRequestMessages(returned, responses, msgs, localized, rewrites) ==
    \E scoped \in {scopedMessages(options, returned)} :
    /\ passMessages' = Append(passMessages, returned)
    /\ IF pass = 1 /\ ~enforceConventionalScope(options)
       THEN Return(returned, responses, msgs, localized, rewrites)
       ELSE IF scoped # << >>
       THEN Return(scoped, responses, msgs, localized, rewrites)
       ELSE IF pass = 1
       THEN /\ gpc' = "generating"
            /\ pass' = 2
            /\ completionResponses' = Pending(requestCount(options))
            /\ messages' = << >>
            /\ localizedMessages' = << >>
            /\ rewriteCompletions' = << >>
            /\ UNCHANGED result
       ELSE Return(returned, responses, msgs, localized, rewrites)

\* requestMessages once every enforceTitleLocale call has resolved, or its
\* wait for those still running.
afterLocalized(responses, msgs, localized, rewrites) ==
    IF \E j \in 1..Len(localized) : localized[j] = << >>
    THEN /\ gpc' = "rewriting"
         /\ messages' = msgs
         /\ localizedMessages' = localized
         /\ rewriteCompletions' = rewrites
         /\ completionResponses' = responses
         /\ UNCHANGED <<pass, passMessages, result>>
    ELSE \E returned \in {requestMessagesResult(options,
                                [j \in 1..Len(localized) |-> localized[j][1]])} :
            afterRequestMessages(returned, responses, msgs, localized, rewrites)

GenInit ==
    /\ options \in OptionSets
    /\ gpc = "idle"
    /\ pass = 0
    /\ completionResponses = << >>
    /\ messages = << >>
    /\ rewriteCompletions = << >>
    /\ localizedMessages = << >>
    /\ passMessages = << >>
    /\ result = << >>
    /\ answers = << >> /\ rewriteAnswers = << >>
    /\ JudgeUnused
    /\ CliUnused
    /\ PureUnused
    /\ ShellUnused
    /\ wire = << >> /\ data = << >> /\ liveStreamBuffer = << >> /\ events = << >>
    /\ spc = "unused" /\ completion = NoCompletion

\* generateCommitMessage is called: the first requestMessages call issues its
\* completion requests.
GenerateCommitMessage ==
    /\ gpc = "idle"
    /\ gpc' = "generating"
    /\ pass' = 1
    /\ completionResponses' = Pending(requestCount(options))
    /\ answers' = Pending(requestCount(options))
    /\ UNCHANGED <<options, messages, rewriteCompletions, localizedMessages, passMessages,
                   result, rewriteAnswers, svars, xvars>>

\* A completion request of the pass rejects: Promise.all rejects, so does
\* requestMessages, and generateCommitMessage throws.
CompletionRejects ==
    /\ gpc = "generating"
    /\ \E i \in 1..Len(completionResponses) :
        /\ completionResponses[i] = NoCompletion
        /\ \E response \in {r \in GenerationResponses : r.kind = "error"} :
            /\ completionResponses' = placeByPosition(completionResponses, i, response)
            /\ answers' = [answers EXCEPT ![i] = response]
            /\ gpc' = "thrown"
            /\ result' = <<response.error>>
    /\ UNCHANGED <<options, pass, messages, rewriteCompletions, localizedMessages,
                   passMessages, rewriteAnswers, svars, xvars>>

\* A completion request of the pass resolves.  With the last one
\* requestMessages goes on: it sanitizes the contents and calls
\* enforceTitleLocale for every message, which issues a rewrite request for
\* the titles that need one.
CompletionResolves ==
    /\ gpc = "generating"
    /\ \E i \in 1..Len(completionResponses) :
        /\ completionResponses[i] = NoCompletion
        /\ \E response \in {r \in GenerationResponses : r.kind = "ok"} :
            LET responses == placeByPosition(completionResponses, i, response) IN
            /\ IF ~allResolved(responses)
               THEN /\ completionResponses' = responses
                    /\ UNCHANGED <<gpc, pass, messages, rewriteCompletions,
                                   localizedMessages, passMessages, result>>
               ELSE \E msgs \in {sanitizedMessages(options, responses)} :
                    \E started \in {[j \in 1..Len(msgs) |->
                                        IF needsRewrite(msgs[j], options.includeDetails,
                                                        options.locale)
                                        THEN << >> ELSE <<msgs[j]>>]} :
                        afterLocalized(responses, msgs, started,
                                       [j \in 1..Len(msgs) |-> NoCompletion])
            /\ answers' = IF pass' # pass THEN Pending(requestCount(options))
                          ELSE [answers EXCEPT ![i] = response]
            /\ rewriteAnswers' =
                    IF \E k \in 1..Len(answers') : answers'[k] = NoCompletion
                    THEN rewriteAnswers
                    ELSE [j \in 1..Len(messages') |-> NoCompletion]
    /\ UNCHANGED <<options, svars, xvars>>

\* A rewrite succeeded when the request resolved and its first string
\* content sanitizes to a non-empty text (rewriteTitleToLocale did not
\* return the title it was given by an early return or from its catch).
rewriteSucceeded(response) ==
    /\ response.kind = "ok"
    /\ firstStringContent(response.choices) # << >>
    /\ sanitizeSimpleMessage(firstStringContent(response.choices)[1]) # ""

\* The rewrite request of message j settles.  enforceTitleLocale resolves
\* for it; with the last one requestMessages finishes the pass.
RewriteSettles ==
    /\ gpc = "rewriting"
    /\ \E j \in 1..Len(localizedMessages) :
        /\ localizedMessages[j] = << >>
        /\ \E response \in RewriteResponses :
            /\ \E localized \in
                    {placeByPosition(localizedMessages, j,
                        <<enforceTitleLocale(messages[j], options.includeDetails,
                                             response)>>)} :
                    afterLocalized(completionResponses, messages, localized,
                                   [rewriteCompletions EXCEPT ![j] = response])
            /\ answers' = IF pass' # pass THEN Pending(requestCount(options)) ELSE answers
            /\ rewriteAnswers' = IF pass' # pass THEN << >>
                                 ELSE [rewriteAnswers EXCEPT ![j] = response]
    /\ UNCHANGED <<options, svars, xvars>>

GenNext ==
    \/ GenerateCommitMessage
    \/ CompletionRejects
    \/ CompletionResolves
    \/ RewriteSettles

SpecGen == GenInit /\ [][GenNext]_vars

(***************************************************************************)
(* generateCommitMessage recomputed from what every request settled as,    *)
(* by the position of the request.                                         *)
(***************************************************************************)
\* The message each enforceTitleLocale call resolves to.
localizedByPosition(o, msgs, rewrites) ==
    [j \in 1..Len(msgs) |->
        IF needsRewrite(msgs[j], o.includeDetails, o.locale)
        THEN enforceTitleLocale(msgs[j], o.includeDetails, rewrites[j])
        ELSE msgs[j]]

\* What generateCommitMessage returns when the pass returned list.
returnedOfList(o, list, scoped) ==
    IF enforceConventionalScope(o) /\ scoped # << >> THEN scoped ELSE list

\* What generateCommitMessage returns from a pass whose requests settled
\* as completions and whose rewrite requests settled as rewrites.
returnedOfPass(o, completions, rewrites) ==
    LET list == requestMessagesResult(o,
                    localizedByPosition(o, sanitizedMessages(o, completions), rewrites))
    IN  returnedOfList(o, list, scopedMessages(o, list))

\* returned is what generateCommitMessage returns from such a pass.
ReturnedOfPass(returned, o, completions, rewrites) ==
    \E msgs \in {sanitizedMessages(o, completions)} :
    \E localized \in {localizedByPosition(o, msgs, rewrites)} :
    \E list \in {requestMessagesResult(o, localized)} :
    \E scoped \in {scopedMessages(o, list)} :
        returned = returnedOfList(o, list, scoped)

(***************************************************************************)
(* Arithmetic on IEEE 754 doubles, as far as the scores of the classifier  *)
(* need it: positive normal numbers and zero, rounding to nearest, ties to *)
(* even.                                                                   *)
(*                                                                         *)
(* A natural number of any size is held as the sequence of its digits to   *)
(* the base 1024, lowest digit first and without a zero as highest digit   *)
(* (<< >> is 0).  A double is held as [m, e], its value m * 2^e with       *)
(* 2^52 <= m < 2^53, or as Zero.                                           *)
(***************************************************************************)
\* The base: a digit is of ten binary digits.
Base == 2 ^ 10

RECURSIVE bigOfInt(_)
bigOfInt(n) == IF n = 0 THEN << >> ELSE <<n % Base>> \o bigOfInt(n \div Base)

RECURSIVE bigTrim(_)
bigTrim(a) ==
    IF a # << >> /\ a[Len(a)] = 0 THEN bigTrim(SubSeq(a, 1, Len(a) - 1)) ELSE a

digit(a, i) == IF i <= Len(a) THEN a[i] ELSE 0

RECURSIVE addFrom(_, _, _, _)
addFrom(a, b, i, carry) ==
    IF i > Len(a) /\ i > Len(b) THEN (IF carry = 0 THEN << >> ELSE <<carry>>)
    ELSE <<(digit(a, i) + digit(b, i) + carry) % Base>>
         \o addFrom(a, b, i + 1, (digit(a, i) + digit(b, i) + carry) \div Base)

bigAdd(a, b) == addFrom(a, b, 1, 0)

RECURSIVE subFrom(_, _, _, _)
subFrom(a, b, i, borrow) ==
    IF i > Len(a) THEN << >>
    ELSE <<(digit(a, i) - digit(b, i) - borrow + Base) % Base>>
         \o subFrom(a, b, i + 1, IF digit(a, i) - digit(b, i) - borrow < 0 THEN 1 ELSE 0)

\* a - b for a >= b
bigSub(a, b) == bigTrim(subFrom(a, b, 1, 0))

RECURSIVE compareFrom(_, _, _)
compareFrom(a, b, i) ==
    IF i = 0 THEN 0
    ELSE IF a[i] # b[i] THEN (IF a[i] > b[i] THEN 1 ELSE -1)
    ELSE compareFrom(a, b, i - 1)

\* 1, 0 or -1 as a is greater than, equal to or less than b
bigCompare(a, b) ==
    IF Len(a) # Len(b) THEN (IF Len(a) > Len(b) THEN 1 ELSE -1)
    ELSE compareFrom(a, b, Len(a))

RECURSIVE timesDigitFrom(_, _, _, _)
timesDigitFrom(a, k, i, carry) ==
    IF i > Len(a) THEN (IF carry = 0 THEN << >> ELSE <<carry>>)
    ELSE <<((a[i] * k) + carry) % Base>>
         \o timesDigitFrom(a, k, i + 1, ((a[i] * k) + carry) \div Base)

\* a * k for a digit k
bigTimesDigit(a, k) == IF k = 0 THEN << >> ELSE timesDigitFrom(a, k, 1, 0)

\* a * Base^n
shiftDigits(a, n) == IF a = << >> THEN << >> ELSE [i \in 1..n |-> 0] \o a

RECURSIVE timesFrom(_, _, _)
timesFrom(a, b, i) ==
    IF i > Len(b) THEN << >>
    ELSE bigAdd(shiftDigits(bigTimesDigit(a, b[i]), i - 1), timesFrom(a, b, i + 1))

bigTimes(a, b) == timesFrom(a, b, 1)

RECURSIVE divideFrom(_, _, _, _, _)
\* The long division of a by d < 2^21 from digit i down, with the remainder
\* r so far and the digits q of the quotient found so far.
divideFrom(a, d, i, r, q) ==
    IF i = 0 THEN [quotient |-> bigTrim(q), remainder |-> r]
    ELSE divideFrom(a, d, i - 1, ((r * Base) + a[i]) % d,
                    <<((r * Base) + a[i]) \div d>> \o q)

bigDivide(a, d) == divideFrom(a, d, Len(a), 0, << >>)

\* a * 2^bits
shiftLeft(a, bits) ==
    shiftDigits(bigTimesDigit(a, 2 ^ (bits % 10)), bits \div 10)

\* a \div 2^bits
shiftRight(a, bits) ==
    bigDivide(SubSeq(a, (bits \div 10) + 1, Len(a)), 2 ^ (bits % 10)).quotient

RECURSIVE bitsOfDigit(_)
bitsOfDigit(d) == IF d = 0 THEN 0 ELSE 1 + bitsOfDigit(d \div 2)

\* the number of binary digits of a
bitLength(a) ==
    IF a = << >> THEN 0 ELSE (10 * (Len(a) - 1)) + bitsOfDigit(a[Len(a)])

isOdd(a) == digit(a, 1) % 2 = 1

Zero == [m |-> << >>, e |-> 0]
Double(m, e) == [m |-> m, e |-> e]

\* m * 2^e for m <= 2^53, which is of 54 binary digits only as 2^53
renormalized(m, e) ==
    IF bitLength(m) > 53 THEN Double(shiftRight(m, 1), e + 1) ELSE Double(m, e)

\* The double nearest to q * 2^e for a q of 54 binary digits, or to a number
\* between q * 2^e and (q + 1) * 2^e when inexact: up when the last digit
\* of q is 1 and the number is above the middle, or in the middle and the
\* digit before the last is 1.
roundGuarded(q, e, inexact) ==
    IF isOdd(q) /\ (inexact \/ isOdd(shiftRight(q, 1)))
    THEN renormalized(bigAdd(shiftRight(q, 1), <<1>>), e + 1)
    ELSE Double(shiftRight(q, 1), e + 1)

roundOfLength(n, e, inexact, length) ==
    IF length = 0 THEN Zero
    ELSE IF length <= 53
         THEN Double(shiftLeft(n, 53 - length), e - (53 - length))
    ELSE roundGuarded(shiftRight(n, length - 54),
                      e + (length - 54),
                      inexact \/ shiftLeft(shiftRight(n, length - 54),
                                           length - 54) # n)

\* The double nearest to n * 2^e, or to a number between n * 2^e and
\* (n + 1) * 2^e when inexact (n then has more than 54 binary digits).
round(n, e, inexact) == roundOfLength(n, e, inexact, bitLength(n))

roundQuotient(division) == round(division.quotient, -80, division.remainder # 0)

\* The double a decimal numeral of the value numerator / denominator denotes
\* (Number(text), JSON.parse, a numeric literal of the source), for a
\* denominator below 2^21 and a value of 2^-25 at least: the quotient is
\* taken to 80 binary places.
doubleOfRatio(numerator, denominator) ==
    roundQuotient(bigDivide(shiftLeft(bigOfInt(numerator), 80), denominator))

\* x * y
doubleTimes(x, y) ==
    IF x = Zero \/ y = Zero THEN Zero ELSE round(bigTimes(x.m, y.m), x.e + y.e, FALSE)

sumAt(x, y, e) == round(bigAdd(shiftLeft(x.m, x.e - e), shiftLeft(y.m, y.e - e)), e, FALSE)

\* x + y
doublePlus(x, y) ==
    IF x = Zero THEN y
    ELSE IF y = Zero THEN x
    ELSE sumAt(x, y, IF x.e < y.e THEN x.e ELSE y.e)

\* x > y
doubleGreater(x, y) ==
    IF x = Zero THEN FALSE
    ELSE IF y = Zero THEN TRUE
    ELSE IF x.e # y.e THEN x.e > y.e
    ELSE bigCompare(x.m, y.m) = 1

differenceAt(x, y, e) ==
    round(bigSub(shiftLeft(x.m, x.e - e), shiftLeft(y.m, y.e - e)), e, FALSE)

\* x - y for x > y
doubleMinus(x, y) ==
    IF y = Zero THEN x ELSE differenceAt(x, y, IF x.e < y.e THEN x.e ELSE y.e)

(***************************************************************************)
(* The conventional type classifier (src/unnamed/part_007).                *)
(*                                                                         *)
(* Numbers.  A score the model reports is a decimal numeral; it is held as *)
(* a whole number of units of 0.000004, so that 10 is MaxScore units.  The *)
(* code computes baseScore = 0.55 e + 0.30 t + 0.15 x and weightedScore =  *)
(* baseScore * typeWeight in doubles.  A candidate holds the two to the    *)
(* unit: baseScore as 11 e + 6 t + 3 x (its unit is 0.000004 / 20), a type *)
(* weight as twenty times its value (1.10 as 22), weightedScore as the     *)
(* product of the two, whose unit is 1e-8; the greatest weighted score is  *)
(* 1 100 000 000.  The double the code holds is within 1e-13 of the value  *)
(* so held, and two values so held differ by whole units.  The test        *)
(* b.weightedScore - a.weightedScore > 1e-6 of the comparator therefore    *)
(* gives what the values held give unless these differ by exactly 1e-6;    *)
(* then the rounding of the doubles decides, and the doubles are computed  *)
(* as the code computes them (weightedScoreOf below).                      *)
(*                                                                         *)
(* A value read from the parsed JSON is held by what the readers make of   *)
(* it: a number field as << >> when no key of the field holds a finite     *)
(* number and as <<n>> otherwise; the gate field as the text of its value  *)
(* ("true" and "false" for the booleans, "" when there is none).           *)
(***************************************************************************)
MaxScore == 2500000

\* scoreEpsilon = 1e-6, in units of 1e-8
scoreEpsilon == 100

\* judgeTypeWeights, times twenty
judgeTypeWeights(category) ==
    CASE category = "refactor" -> 22
      [] category = "feat" -> 20
      [] category = "fix" -> 16
      [] category = "perf" -> 15
      [] category = "other" -> 19

\* Math.max(0, Math.min(10, numeric))
clampScore0to10(numeric) ==
    IF numeric < 0 THEN 0 ELSE IF numeric > MaxScore THEN MaxScore ELSE numeric

\* readBooleanField on the value of the gate: << >> is undefined.
readBooleanField(value) ==
    IF normalizeKey(value) \in {"true", "yes", "1", "pass", "passed"} THEN <<TRUE>>
    ELSE IF normalizeKey(value) \in {"false", "no", "0", "fail", "failed"} THEN <<FALSE>>
    ELSE << >>

\* parseJudgeTypeScore of rawScore (<< >> when the map holds none).
parseJudgeTypeScore(rawScore) ==
    IF rawScore = << >> THEN << >>
    ELSE IF \/ rawScore[1].evidenceMatch = << >>
            \/ rawScore[1].titleBodyConsistency = << >>
            \/ rawScore[1].exclusivity = << >>
            \/ readBooleanField(rawScore[1].hardGatePass) = << >>
    THEN << >>
    ELSE <<[evidenceMatch |-> clampScore0to10(rawScore[1].evidenceMatch[1]),
            titleBodyConsistency |-> clampScore0to10(rawScore[1].titleBodyConsistency[1]),
            exclusivity |-> clampScore0to10(rawScore[1].exclusivity[1]),
            hardGatePass |-> readBooleanField(rawScore[1].hardGatePass)[1]]>>

\* /\bword\b/.test(text)
ContainsWord(text, word) ==
    \E i \in 1..(Len(text) - Len(word) + 1) :
        /\ Slice(text, i, i + Len(word) - 1) = word
        /\ (i = 1 \/ ~IsWordChar(Char(text, i - 1)))
        /\ (i + Len(word) > Len(text) \/ ~IsWordChar(Char(text, i + Len(word))))

\* The tests of inferScoreWeightCategory on the lower-cased text.  The
\* keywords in Chinese have no counterpart in the texts of this model.
categoryOfText(text) ==
    IF \/ ContainsWord(text, "refactor")
       \/ \E w \in {"cleanup", "clean up", "async", "await"} : Contains(text, w)
    THEN "refactor"
    ELSE IF ContainsWord(text, "feat") \/ ContainsWord(text, "feature") THEN "feat"
    ELSE IF ContainsWord(text, "fix") \/ ContainsWord(text, "bug") THEN "fix"
    ELSE IF ContainsWord(text, "perf") \/ ContainsWord(text, "performance") THEN "perf"
    ELSE "other"

inferScoreWeightCategory(typeName, description) ==
    IF normalizeKey(typeName) = "refactor" THEN "refactor"
    ELSE IF normalizeKey(typeName) \in {"feat", "feature"} THEN "feat"
    ELSE IF normalizeKey(typeName) \in {"fix", "bugfix"} THEN "fix"
    ELSE IF normalizeKey(typeName) \in {"perf", "performance"} THEN "perf"
    ELSE categoryOfText(ToLowerCase(typeName \o " " \o description))

\* A faulty variant of effectiveHardGate that holds every category to the
\* gate the model reported.
reportedHardGate(weightCategory, modelHardGatePass) == modelHardGatePass

\* getRankedTypesByJudgeScores: hardGatePass
effectiveHardGate(weightCategory, modelHardGatePass) ==
    IF weightCategory \in {"fix", "perf"} THEN modelHardGatePass ELSE TRUE

\* getRankedTypesByJudgeScores: the candidate pushed for a type with a score.
scoredCandidate(typeName, weightCategory, score) ==
    [typeName |-> typeName,
     weightCategory |-> weightCategory,
     evidenceMatch |-> score.evidenceMatch,
     titleBodyConsistency |-> score.titleBodyConsistency,
     exclusivity |-> score.exclusivity,
     hardGatePass |-> effectiveHardGate(weightCategory, score.hardGatePass),
     modelHardGatePass |-> score.hardGatePass,
     weightedScore |-> ((11 * score.evidenceMatch) + (6 * score.titleBodyConsistency)
                        + (3 * score.exclusivity)) * judgeTypeWeights(weightCategory),
     baseScore |-> (11 * score.evidenceMatch) + (6 * score.titleBodyConsistency)
                   + (3 * score.exclusivity),
     typeWeight |-> judgeTypeWeights(weightCategory)]

\* The double of a score of n units: the score is the numeral of n * 0.000004.
UnitsPerOne == MaxScore \div 10
doubleOfScore(n) == doubleOfRatio(n, UnitsPerOne)

\* (score.evidenceMatch * 0.55) + (score.titleBodyConsistency * 0.30)
\*     + (score.exclusivity * 0.15)
baseScoreOf(item) ==
    doublePlus(doublePlus(doubleTimes(doubleOfScore(item.evidenceMatch),
                                      doubleOfRatio(55, 100)),
                          doubleTimes(doubleOfScore(item.titleBodyConsistency),
                                      doubleOfRatio(30, 100))),
               doubleTimes(doubleOfScore(item.exclusivity), doubleOfRatio(15, 100)))

\* baseScore * typeWeight, the double the candidate holds as weightedScore
weightedScoreOf(item) == doubleTimes(baseScoreOf(item), doubleOfRatio(item.typeWeight, 20))

\* x - y > scoreEpsilon for doubles x and y
differenceExceeds(x, y) ==
    doubleGreater(x, y) /\ doubleGreater(doubleMinus(x, y), doubleOfRatio(1, 1000000))

\* a.weightedScore - b.weightedScore > scoreEpsilon
exceedsEpsilon(a, b) ==
    IF a.weightedScore - b.weightedScore # scoreEpsilon
    THEN a.weightedScore - b.weightedScore > scoreEpsilon
    ELSE differenceExceeds(weightedScoreOf(a), weightedScoreOf(b))

\* The comparator handed to ranked.sort.
compareCandidates(a, b) ==
    IF a.hardGatePass # b.hardGatePass THEN (IF a.hardGatePass THEN -1 ELSE 1)
    ELSE IF exceedsEpsilon(b, a) THEN 1
    ELSE IF exceedsEpsilon(a, b) THEN -1
    ELSE b.typeWeight - a.typeWeight

\* Array.prototype.sort with compareCandidates, as the engine of Node does
\* it for an array of fewer than 32 elements: the run the array starts with
\* is found (and reversed when it descends strictly), then every further
\* element is put in place by a binary search of the sorted part.
RECURSIVE RunEnd(_, _, _)
RunEnd(list, idx, descending) ==
    IF idx > Len(list) THEN Len(list)
    ELSE IF (compareCandidates(list[idx], list[idx - 1]) < 0) # descending THEN idx - 1
    ELSE RunEnd(list, idx + 1, descending)

Reverse(list) == [i \in 1..Len(list) |-> list[Len(list) + 1 - i]]

RECURSIVE InsertIndex(_, _, _, _)
InsertIndex(list, pivot, left, right) ==
    IF left >= right THEN left
    ELSE IF compareCandidates(pivot, list[left + ((right - left) \div 2)]) < 0
    THEN InsertIndex(list, pivot, left, left + ((right - left) \div 2))
    ELSE InsertIndex(list, pivot, left + ((right - left) \div 2) + 1, right)

MoveTo(list, from, to) ==
    SubSeq(list, 1, to - 1) \o <<list[from]>> \o SubSeq(list, to, from - 1)
    \o SubSeq(list, from + 1, Len(list))

RECURSIVE BinaryInsertionSort(_, _)
BinaryInsertionSort(list, start) ==
    IF start > Len(list) THEN list
    ELSE BinaryInsertionSort(
            MoveTo(list, start, InsertIndex(list, list[start], 1, start)), start + 1)

SortOfRun(list, run, descending) ==
    BinaryInsertionSort(
        IF descending THEN Reverse(SubSeq(list, 1, run)) \o SubSeq(list, run + 1, Len(list))
        ELSE list,
        run + 1)

sortRanked(list) ==
    IF Len(list) < 2 THEN list
    ELSE SortOfRun(list, RunEnd(list, 3, compareCandidates(list[2], list[1]) < 0),
                   compareCandidates(list[2], list[1]) < 0)

\* normalizedScoreMap.get(key): the value of the last entry of
\* scoresByTypeRaw whose normalized key is key; << >> when there is none.
scoreOfKey(scoresByTypeRaw, key) ==
    LET hits == {i \in 1..Len(scoresByTypeRaw) :
                    normalizeKey(scoresByTypeRaw[i].key) = key}
    IN  IF hits = {} THEN << >>
        ELSE <<scoresByTypeRaw[CHOOSE i \in hits : \A k \in hits : k <= i].value>>

\* getRankedTypesByJudgeScores: the candidate of one type of the catalog,
\* if the type has a score that parses.
candidateOfType(entry, score) ==
    IF score = << >> THEN << >>
    ELSE <<scoredCandidate(entry.typeName,
                           inferScoreWeightCategory(entry.typeName, entry.description),
                           score[1])>>

getRankedTypesByJudgeScores(types, scoresByTypeRaw) ==
    sortRanked(Flatten([i \in 1..Len(types) |->
        candidateOfType(types[i],
            parseJudgeTypeScore(scoreOfKey(scoresByTypeRaw,
                                           normalizeKey(types[i].typeName))))]))

\* ranked.find(predicate): << >> when no element satisfies it.
FirstOf(found) == IF found = << >> THEN << >> ELSE <<found[1]>>

FirstGatePassing(ranked) ==
    LET Passing(item) == item.hardGatePass IN FirstOf(SelectSeq(ranked, Passing))

FirstNotFixOrPerf(ranked) ==
    LET Free(item) == item.weightCategory \notin {"fix", "perf"}
    IN  FirstOf(SelectSeq(ranked, Free))

\* A faulty variant of selectedTypeOf that takes the candidate with the
\* greatest weighted score, whatever its gate.
selectedByScoreAlone(ranked) ==
    IF ranked = << >> THEN << >>
    ELSE <<(CHOOSE item \in {ranked[i] : i \in 1..Len(ranked)} :
              \A i \in 1..Len(ranked) : ranked[i].weightedScore <= item.weightedScore).typeName>>

\* buildConventionalTypeJudgeReport: selectedType (<< >> is undefined).
selectedTypeOf(ranked) ==
    IF FirstGatePassing(ranked) # << >> THEN <<FirstGatePassing(ranked)[1].typeName>>
    ELSE IF FirstNotFixOrPerf(ranked) # << >> THEN <<FirstNotFixOrPerf(ranked)[1].typeName>>
    ELSE IF ranked # << >> THEN <<ranked[1].typeName>>
    ELSE << >>

reportOfRanked(ranked, source) ==
    [source |-> source,
     selectedType |-> selectedTypeOf(ranked),
     topCandidates |-> SubSeq(ranked, 1, IF Len(ranked) < 3 THEN Len(ranked) ELSE 3)]

buildConventionalTypeJudgeReport(types, scoresByTypeRaw, source) ==
    reportOfRanked(getRankedTypesByJudgeScores(types, scoresByTypeRaw), source)

\* allowedTypeMap.get(normalizeKey(rawType)): << >> when rawType is no
\* string or no allowed type has its normalized key.
matchedTypeOf(types, rawType) ==
    IF rawType = << >> THEN << >>
    ELSE LET hits == {i \in 1..Len(types) :
                        normalizeKey(types[i].typeName) = normalizeKey(rawType[1])}
         IN  IF hits = {} THEN << >>
             ELSE <<types[CHOOSE i \in hits : \A k \in hits : k <= i].typeName>>

\* parseJudgeTopCandidates: scoresByType as the sequence of its entries.
RECURSIVE collectTopCandidates(_, _, _)
collectTopCandidates(types, value, scoresByType) ==
    IF value = << >> \/ Len(scoresByType) >= 3 THEN scoresByType
    ELSE collectTopCandidates(types, Tail(value),
            IF \/ matchedTypeOf(types, Head(value).type) = << >>
               \/ \E k \in 1..Len(scoresByType) :
                    scoresByType[k].key = matchedTypeOf(types, Head(value).type)[1]
            THEN scoresByType
            ELSE Append(scoresByType,
                        [key |-> matchedTypeOf(types, Head(value).type)[1],
                         value |-> Head(value)]))

parseJudgeTopCandidates(value, types) == collectTopCandidates(types, value, << >>)

(***************************************************************************)
(* generatePrompt (src/src/utils/prompt.ts).  The prompt is held as the    *)
(* sequence of its lines: every section is a list of lines joined with a   *)
(* line feed, and so is the list of the sections that are not empty.       *)
(***************************************************************************)
MaxShownFiles == 12

\* String(n) of a natural number
RECURSIVE DecimalText(_)
DecimalText(n) ==
    IF n < 10 THEN Slice("0123456789", n + 1, n + 1)
    ELSE DecimalText(n \div 10) \o Slice("0123456789", (n % 10) + 1, (n % 10) + 1)

\* JSON.stringify(conventionalTypes, null, 2) for names and descriptions
\* without a character that JSON escapes.
catalogJson(types) ==
    <<"{">>
    \o [i \in 1..Len(types) |->
            "  \"" \o types[i].typeName \o "\": \"" \o types[i].description \o "\""
            \o (IF i < Len(types) THEN "," ELSE "")]
    \o <<"}">>

getCommitFormat(type, conventionalFormat) ==
    IF type = "conventional"
    THEN (IF conventionalFormat # << >> /\ Trim(conventionalFormat[1]) # ""
          THEN Trim(conventionalFormat[1])
          ELSE "<type>[optional (<scope>)]: <commit message>")
    ELSE "<commit message>"

specifyCommitFormat(type, conventionalFormat, includeDetails) ==
    <<IF includeDetails THEN "The commit title line must be in format:"
      ELSE "The output response must be in format:",
      getCommitFormat(type, conventionalFormat)>>

TypeSelectionRules ==
    <<"Select the type directly from the diff intent. Do not run or describe any scoring process.",
      "Type rules:",
      "- fix: use only for explicit bug/defect correction evidence (wrong behavior, crash, exception, regression, data corruption).",
      "- perf: use only when the primary purpose is performance improvement.",
      "- refactor: use for structural/API/concurrency-flow changes without explicit bug-fix evidence.",
      "- If uncertain between fix/perf and refactor, choose refactor.",
      "The selected type must stay semantically consistent with both title and body.",
      "Do not output any type-selection reasoning.">>

\* A faulty variant of getCommitTypeInstruction that hands the catalog to
\* the model whether or not a type is locked.
getCommitTypeInstructionUnlocked(type, types, lockedType) ==
    IF type # "conventional" THEN << >>
    ELSE <<"Choose a type from the type-to-description JSON below that best describes the git diff:">>
         \o catalogJson(types) \o TypeSelectionRules

\* types is parseConventionalTypes(conventionalTypes).
getCommitTypeInstruction(type, types, lockedType) ==
    IF type # "conventional" THEN << >>
    ELSE IF lockedType # << >> /\ Trim(lockedType[1]) # ""
    THEN <<"Selected conventional type (locked): " \o Trim(lockedType[1]),
           "Use this exact type in the title prefix. Do not change it.",
           "The title and body details must stay semantically consistent with this selected type.">>
    ELSE <<"Choose a type from the type-to-description JSON below that best describes the git diff:">>
         \o catalogJson(types) \o TypeSelectionRules

getDetailsInstruction(includeDetails, detailsStyle) ==
    IF ~includeDetails THEN <<"Provide only the title, no description or body.">>
    ELSE IF detailsStyle = "list"
    THEN <<"Provide both a title and a body.",
           "Output format must be exactly:",
           "<title>",
           "",
           "<body>",
           "The body must be 3-6 concise bullet points.",
           "Each bullet must start with \"- \".",
           "Do not use section labels like \"Impact:\", \"Changes:\", \"Summary:\", or markdown headings.",
           "Each bullet should describe one concrete code-path change with real symbols from the diff.">>
    ELSE <<"Provide both a title and a body.",
           "Output format must be exactly:",
           "<title>",
           "",
           "<body>",
           "The body should be 3-6 concise technical prose sentences in one paragraph, not bullet points.",
           "Do not use section labels like \"Impact:\", \"Changes:\", \"Summary:\", or markdown headings.",
           "Describe concrete code-path changes with real symbols from the diff (classes, methods, APIs, actor/threading/cancellation/error-flow changes).",
           "Prefer before/after wording for key behavior changes instead of generic claims.">>

getDefaultStyleInstructions ==
    <<"Use GitHub Copilot style.",
      "Keep wording concise, technical, and neutral.",
      "Use specific subsystem, class, API, and type names from the diff.",
      "Prefer an imperative, action-led title (for example: Use..., Convert..., Refactor..., Simplify...).",
      "Prioritize concrete change actions and concurrency/correctness context over generic phrasing.",
      "Avoid generic wording like \"optimize logic\" unless the concrete optimization is explicitly described.">>

\* instructions is << >> when the option is undefined.
getCustomInstructions(instructions) ==
    IF instructions = << >> THEN << >>
    ELSE IF Trim(instructions[1]) = "" THEN << >>
    ELSE <<"Additional instructions from user:", Trim(instructions[1])>>

getLanguageInstruction(locale) ==
    <<"Message language: " \o locale,
      "You must write the commit message strictly in this language.">>

shownFilesLines(normalized) ==
    <<"Changed files:">>
    \o [i \in 1..(IF Len(normalized) < MaxShownFiles THEN Len(normalized) ELSE MaxShownFiles)
            |-> "- " \o normalized[i]]
    \o (IF Len(normalized) > MaxShownFiles
        THEN <<"- ...and " \o DecimalText(Len(normalized) - MaxShownFiles) \o " more file(s)">>
        ELSE << >>)

\* changedFiles is << >> when the option is undefined or empty.
getChangedFilesInstruction(changedFiles) ==
    IF FilterNonEmpty([i \in 1..Len(changedFiles) |-> Trim(changedFiles[i])]) = << >>
    THEN << >>
    ELSE shownFilesLines(FilterNonEmpty([i \in 1..Len(changedFiles) |-> Trim(changedFiles[i])]))

getAnchorRequirementInstruction(type, conventionalScope) ==
    <<"Title anchor requirement:",
      "- The commit title must mention at least one concrete anchor from the diff (file, class/type, module, or subsystem).",
      "- Prefer class/type/module/subsystem names over raw file paths when possible.",
      "- Avoid titles that only mention function names without file/class context.">>
    \o (IF type # "conventional" THEN << >>
        ELSE IF conventionalScope
        THEN <<"- For conventional commits, include scope using the primary file/class/module when possible (for example: refactor(RecentScrollshotController): ...).",
               "- Only omit scope when there is no clear dominant anchor.">>
        ELSE <<"- Scope is optional; include it only when it clearly improves clarity.">>)

getConventionalSubjectInstruction(type) ==
    IF type # "conventional" THEN << >>
    ELSE <<"Conventional title subject rules:",
           "- The subject text after \"<type>(<scope>): \" must not start with the same type word.",
           "- Example to avoid: \"refactor: refactor ...\".",
           "- The selected prefix must stay semantically consistent with the subject action; never output titles like \"feat: refactor ...\" or \"fix: refactor ...\".",
           "- For alphabetic languages (for example English), capitalize the first word in the subject.",
           "- Run a final self-check before output: if subject starts with the selected type word, rewrite the subject.">>

\* generatePrompt(locale, maxLength, type, o): maxLength is the decimal text
\* of the number; o holds the options, the undefined ones as << >>, and
\* o.types is parseConventionalTypes(o.conventionalTypes).
generatePrompt(locale, maxLength, type, o) ==
    <<"Generate a concise git commit message in present tense that precisely describes the key changes in the following code diff. Focus on what was changed, not just file names.">>
    \o getDetailsInstruction(o.includeDetails, o.detailsStyle)
    \o getLanguageInstruction(locale)
    \o <<"Commit title must be a maximum of " \o maxLength \o " characters.",
         "Exclude anything unnecessary such as translation. Your entire response will be passed directly into git commit.",
         "IMPORTANT: Do not include any explanations, introductions, or additional text. Do not wrap the commit message in quotes or any other formatting. The commit title must not exceed " \o maxLength \o " characters. Respond with ONLY the commit message text.",
         "Be specific: include concrete details (package names, versions, functionality) rather than generic statements.">>
    \o getChangedFilesInstruction(o.changedFiles)
    \o getAnchorRequirementInstruction(type,
            IF o.conventionalScope = << >> THEN TRUE ELSE o.conventionalScope[1])
    \o getConventionalSubjectInstruction(type)
    \o getCommitTypeInstruction(type, o.types, o.lockedConventionalType)
    \o specifyCommitFormat(type, o.conventionalFormat, o.includeDetails)
    \o getDefaultStyleInstructions
    \o getCustomInstructions(o.instructions)

(***************************************************************************)
(* generateCommitMessage of src/unnamed/part_007 as a state machine: the   *)
(* classification request, then the one generation request.  The call is   *)
(* made with locale "en", max-length 50 and no option but the catalog.     *)
(***************************************************************************)
MaxReplyCandidates == 3

\* A catalog is the sequence of the entries of the object
\* parseConventionalTypes returns: a part of the default catalog in its
\* order, and one the user configured.
Catalogs ==
    {<<[typeName |-> "docs", description |-> "Documentation only changes"],
       [typeName |-> "refactor", description |-> "A code change that improves code structure"],
       [typeName |-> "perf", description |-> "A code change focused only on performance improvements"],
       [typeName |-> "feat", description |-> "A new feature"],
       [typeName |-> "fix", description |-> "A bug fix"]>>,
     <<[typeName |-> "hotfix", description |-> "Urgent bug repair"],
       [typeName |-> "tidy", description |-> "Code cleanup"],
       [typeName |-> "speed", description |-> "Performance work"],
       [typeName |-> "Feature", description |-> "New capability"]>>}

\* An element of topCandidates, or a value of the scores object: the type
\* (<< >> when it is no string), the same number n for evidenceMatch and
\* titleBodyConsistency, n + dx for exclusivity, and the gate.
Scored(type, n, dx, gate) ==
    [type |-> type, evidenceMatch |-> <<n>>, titleBodyConsistency |-> <<n>>,
     exclusivity |-> <<n + dx>>, hardGatePass |-> gate]

RawCandidates ==
    {Scored(<<"refactor">>, 1900000, 0, "true"),
     Scored(<<"feat">>, 2090000, 1, "true"),
     Scored(<<"docs">>, 2200000, 2, "false"),
     Scored(<<"feat">>, 2090001, -5, " Yes "),
     Scored(<<" FIX ">>, 2500000, 0, "fail"),
     Scored(<<"perf">>, 3000000, 0, "false"),
     Scored(<<"hotfix">>, 2500000, 0, "false"),
     Scored(<<"feature">>, 1250000, 0, "true"),
     [type |-> <<"feat">>, evidenceMatch |-> << >>, titleBodyConsistency |-> <<2500000>>,
      exclusivity |-> <<2500000>>, hardGatePass |-> "true"],
     Scored(<<"unknown">>, 2500000, 0, "true")}

\* The entries of a scores object with the candidates' types as its keys.
ScoresObject(candidates) ==
    [i \in 1..Len(candidates) |-> [key |-> candidates[i].type[1], value |-> candidates[i]]]

ScoresObjects ==
    {ScoresObject(<<Scored(<<"docs">>, 2200000, 2, "false"),
                    Scored(<<"refactor">>, 1900000, 0, "true"),
                    Scored(<<"Perf">>, 2500000, 0, "false"),
                    Scored(<<"feat">>, 2090000, 1, "true"),
                    Scored(<<"fix">>, 2500000, 0, gate)>>) : gate \in {"true", "false"}}
    \cup {ScoresObject(<<Scored(<<"fix">>, 2500000, 0, "true"),
                         Scored(<<"hotfix">>, 2500000, 0, "no"),
                         Scored(<<"tidy">>, 1900000, 0, "maybe"),
                         Scored(<<"speed">>, 2500000, 0, "0"),
                         Scored(<<"Fix">>, 1250000, 0, "false")>>),
          << >>}

\* What the classification request may settle as: a failure of
\* createChatCompletion, a completion without string content, a content
\* without a JSON object in it, or a content whose JSON object holds the
\* topCandidates given (<< >> also when it holds no array there) and the
\* scores object given (hasScores tells whether it holds one).
JudgeReply(kind, topCandidates, hasScores, scores) ==
    [kind |-> kind, topCandidates |-> topCandidates, hasScores |-> hasScores,
     scores |-> scores]

RECURSIVE SeqsUpTo(_, _)
SeqsUpTo(S, n) ==
    IF n = 0 THEN {<< >>}
    ELSE SeqsUpTo(S, n - 1)
         \cup {Append(q, x) : q \in {p \in SeqsUpTo(S, n - 1) : Len(p) = n - 1}, x \in S}

JudgeReplies ==
    {JudgeReply(kind, << >>, FALSE, << >>) : kind \in {"error", "nocontent", "nojson"}}
    \cup {JudgeReply("json", candidates, FALSE, << >>) :
            candidates \in SeqsUpTo(RawCandidates, MaxReplyCandidates)}
    \cup {JudgeReply("json", candidates, TRUE, scores) :
            candidates \in {<< >>, <<Scored(<<"unknown">>, 2500000, 0, "true")>>,
                            <<Scored(<< >>, 2500000, 0, "true")>>,
                            <<Scored(<<"refactor">>, 1900000, 0, "true")>>},
            scores \in ScoresObjects}

\* selectLockedConventionalType once its request resolved: << >> is
\* undefined.
selectLockedConventionalType(types, reply) ==
    IF reply.kind # "json" THEN << >>
    ELSE IF parseJudgeTopCandidates(reply.topCandidates, types) # << >>
    THEN <<buildConventionalTypeJudgeReport(types,
                parseJudgeTopCandidates(reply.topCandidates, types), "topCandidates")>>
    ELSE IF ~reply.hasScores THEN << >>
    ELSE <<buildConventionalTypeJudgeReport(types, reply.scores, "scores")>>

\* judgeReport?.selectedType
selectedTypeOfReport(report) ==
    IF report = << >> THEN << >> ELSE report[1].selectedType

\* The system prompt of the generation request.
promptOfCall(type, types, locked) ==
    generatePrompt("en", "50", type,
        [includeDetails |-> FALSE, detailsStyle |-> "paragraph", instructions |-> << >>,
         conventionalFormat |-> << >>, conventionalScope |-> << >>, changedFiles |-> << >>,
         types |-> types, lockedConventionalType |-> locked])

\* What the generation request may settle as.
JudgeGenerationResponses ==
    {Success(<<Choice(0, Str("fix: add x"))>>),
     Success(<<Choice(0, Str("fix: add x")), Choice(1, Str("\"fix: add x\""))>>),
     Success(<<Choice(0, Str("refactor(api): move x")), Choice(1, Str("fix: add x"))>>),
     Success(<<Choice(0, NoStr)>>),
     Failure("Time out error")}

\* The messages generateCommitMessage returns for the choices of the
\* completion: no title is rewritten for the locale "en".
messagesOfChoices(choices) ==
    deduplicateMessages(FilterNonEmpty(FilterNonEmpty(Flatten(
        [i \in 1..Len(choices) |->
            IF IsStr(choices[i].content)
            THEN <<sanitizeMessage(choices[i].content[1], FALSE, "paragraph")>>
            ELSE << >>]))))

StreamUnused ==
    /\ wire = << >> /\ data = << >> /\ liveStreamBuffer = << >> /\ events = << >>
    /\ spc = "unused" /\ completion = NoCompletion

GenUnused ==
    /\ options = << >> /\ gpc = "unused" /\ pass = 0
    /\ completionResponses = << >> /\ messages = << >> /\ rewriteCompletions = << >>
    /\ localizedMessages = << >> /\ passMessages = << >> /\ result = << >>
    /\ answers = << >> /\ rewriteAnswers = << >>

JudgeInit ==
    /\ commitType \in {"", "conventional"}
    /\ conventionalTypes \in Catalogs
    /\ classifier = "NotRun"
    /\ judgeReply = << >>
    /\ judgeReport = << >>
    /\ lockedConventionalType = << >>
    /\ systemPrompt = << >>
    /\ lpc = "idle"
    /\ generated = << >>
    /\ StreamUnused
    /\ GenUnused
    /\ CliUnused
    /\ PureUnused
    /\ ShellUnused

\* generateCommitMessage is called.  For the conventional type it awaits
\* selectLockedConventionalType, which issues the classification request;
\* for the other it issues the generation request at once.
CallGenerateCommitMessage ==
    /\ lpc = "idle"
    /\ IF commitType = "conventional"
       THEN /\ lpc' = "classifying"
            /\ classifier' = "Scoring"
            /\ UNCHANGED systemPrompt
       ELSE /\ lpc' = "generating"
            /\ systemPrompt' = promptOfCall(commitType, conventionalTypes, << >>)
            /\ UNCHANGED classifier
    /\ UNCHANGED <<commitType, conventionalTypes, judgeReply, judgeReport,
                   lockedConventionalType, generated, svars, gvars, cvars, pvars, hvars>>

\* A faulty variant of ClassificationSettles in which generateCommitMessage
\* has no catch around the classification: what the request threw ends the
\* call.
ClassificationSettlesFatally ==
    /\ lpc = "classifying"
    /\ \E reply \in JudgeReplies :
        /\ judgeReply' = reply
        /\ judgeReport' = selectLockedConventionalType(conventionalTypes, reply)
    /\ lockedConventionalType' = selectedTypeOfReport(judgeReport')
    /\ classifier' = IF lockedConventionalType' # << >> THEN "Locked" ELSE "Unlocked"
    /\ IF judgeReply'.kind = "error"
       THEN /\ lpc' = "thrown"
            /\ generated' = <<"Time out error">>
            /\ UNCHANGED systemPrompt
       ELSE /\ lpc' = "generating"
            /\ systemPrompt' = promptOfCall(commitType, conventionalTypes,
                                            lockedConventionalType')
            /\ UNCHANGED generated
    /\ UNCHANGED <<commitType, conventionalTypes, svars, gvars, cvars, pvars, hvars>>

\* The classification request settles: selectLockedConventionalType returns
\* or throws, generateCommitMessage takes the selected type of the report
\* or goes on from its catch, and issues the generation request.
ClassificationSettles ==
    /\ lpc = "classifying"
    /\ \E reply \in JudgeReplies :
        /\ judgeReply' = reply
        /\ judgeReport' = selectLockedConventionalType(conventionalTypes, reply)
    /\ lockedConventionalType' = selectedTypeOfReport(judgeReport')
    /\ classifier' = IF lockedConventionalType' # << >> THEN "Locked" ELSE "Unlocked"
    /\ systemPrompt' = promptOfCall(commitType, conventionalTypes, lockedConventionalType')
    /\ lpc' = "generating"
    /\ UNCHANGED <<commitType, conventionalTypes, generated, svars, gvars, cvars, pvars, hvars>>

\* The generation request settles: generateCommitMessage returns the
\* messages, or throws what createChatCompletion threw.
GenerationSettles ==
    /\ lpc = "generating"
    /\ \E response \in JudgeGenerationResponses :
        IF response.kind = "ok"
        THEN /\ lpc' = "returned"
             /\ generated' = messagesOfChoices(response.choices)
        ELSE /\ lpc' = "thrown"
             /\ generated' = <<response.error>>
    /\ UNCHANGED <<commitType, conventionalTypes, classifier, judgeReply, judgeReport,
                   lockedConventionalType, systemPrompt, svars, gvars, cvars, pvars, hvars>>

JudgeNext ==
    \/ CallGenerateCommitMessage
    \/ ClassificationSettles
    \/ GenerationSettles

SpecJudge == JudgeInit /\ [][JudgeNext]_vars

(***************************************************************************)
(* Properties of the completion client (checked under SpecStream).         *)
(***************************************************************************)
\* The call ended with the whole body received and a 2xx status.
ResponseProcessed ==
    /\ spc = "done"
    /\ completion.error \notin {"ENOTFOUND", "ECONNREFUSED", "Time out error",
                                "API Error: status"}

\* The body received is of the streamed shape (not one JSON object).
ReceivedText == toString(data)
StreamedShape ==
    /\ TrimTokens(ReceivedText) # << >>
    /\ LineText(Head(TrimTokens(ReceivedText))).kind # "json"

\* The frames of the received text that parse to a JSON value, in arrival
\* order, and the choice entries they carry.
ReceivedPayloads == collectPayloads(SplitOnCRLF(TrimTokens(ReceivedText), << >>))
ReceivedEntries ==
    Flatten([i \in 1..Len(ReceivedPayloads) |-> ReceivedPayloads[i].choices])

\* The index the entry e belongs to (an entry without a numeric index belongs
\* to index 0).
IndexOfEntry(e) == IF Len(e.index) = 1 THEN e.index[1] ELSE 0

\* The content deltas and the reasoning deltas one entry carries.
ContentDeltas(e) == IF e.delta /\ IsStr(e.content) THEN e.content ELSE << >>
ReasoningDeltas(e) ==
    IF e.delta
    THEN (IF IsStr(e.reasoning_content) THEN e.reasoning_content ELSE << >>)
         \o (IF IsStr(e.reasoning) THEN e.reasoning ELSE << >>)
    ELSE << >>

\* The entries of es that belong to index i, in arrival order.
EntriesOfIndex(es, i) ==
    LET Belongs(e) == IndexOfEntry(e) = i IN SelectSeq(es, Belongs)

ContentOfIndex(es, i) ==
    LET own == EntriesOfIndex(es, i) IN
    Join(Flatten([k \in 1..Len(own) |-> ContentDeltas(own[k])]))

ReasoningOfIndex(es, i) ==
    LET own == EntriesOfIndex(es, i) IN
    Join(Flatten([k \in 1..Len(own) |-> ReasoningDeltas(own[k])]))

\* C3: for a streamed response that is aggregated, the result holds exactly
\* one choice per distinct index, in index order, and the content (reasoning)
\* of the choice with index i is the concatenation, in arrival order, of the
\* content (reasoning) deltas of the entries with index i and of no other.
C3_PerIndexConcatenation ==
    (ResponseProcessed /\ StreamedShape /\ completion.kind = "ok") =>
        LET es == ReceivedEntries
            indexes == {IndexOfEntry(es[k]) : k \in 1..Len(es)}
            choices == completion.choices
        IN  /\ Len(choices) = Cardinality(indexes)
            /\ {choices[k].index : k \in 1..Len(choices)} = indexes
            /\ \A k \in 1..Len(choices) :
                /\ choices[k].content = Str(ContentOfIndex(es, choices[k].index))
                /\ choices[k].reasoning_content =
                      (IF ReasoningOfIndex(es, choices[k].index) = "" THEN NoStr
                       ELSE Str(ReasoningOfIndex(es, choices[k].index)))
                /\ k > 1 => choices[k - 1].index < choices[k].index

\* Witness of C3: two choices were aggregated and one of them from more than
\* one delta.
C3_Witness ==
    /\ ResponseProcessed /\ StreamedShape /\ completion.kind = "ok"
    /\ Len(completion.choices) = 2
    /\ \E k \in 1..2 : Len(completion.choices[k].content[1]) >= 2

\* The texts of the events of one kind, in emission order.
EventTexts(evs, kind) ==
    LET OfKind(ev) == ev.kind = kind
        own == SelectSeq(evs, OfKind)
    IN  [k \in 1..Len(own) |-> own[k].text]

\* C4 (as claimed): when the streamed response has been aggregated, the
\* content events emitted live, concatenated, are the content deltas the
\* aggregation accumulated, and the same for the reasoning events.
C4_LiveEqualsAggregated ==
    (ResponseProcessed /\ StreamedShape /\ completion.kind = "ok") =>
        LET es == ReceivedEntries IN
        /\ Join(EventTexts(events, "content"))
              = Join(Flatten([k \in 1..Len(es) |-> ContentDeltas(es[k])]))
        /\ Join(EventTexts(events, "reasoning"))
              = Join(Flatten([k \in 1..Len(es) |-> ReasoningDeltas(es[k])]))

\* The deltas of the text received so far in arrival order, as events; the
\* fields of one delta arrive together and are listed reasoning first.
ArrivalOfEntry(e) ==
    [k \in 1..Len(ReasoningDeltas(e)) |-> Event("reasoning", ReasoningDeltas(e)[k])]
    \o [k \in 1..Len(ContentDeltas(e)) |-> Event("content", ContentDeltas(e)[k])]

ArrivalOrder ==
    LET payloads == collectPayloads(SplitOnCRLF(ReceivedText, << >>))
        es == Flatten([i \in 1..Len(payloads) |-> payloads[i].choices])
    IN  Flatten([k \in 1..Len(es) |-> ArrivalOfEntry(es[k])])

\* No content event precedes a reasoning event.
ReasoningFirst(evs) ==
    \A i, j \in 1..Len(evs) :
        (evs[i].kind = "content" /\ evs[j].kind = "reasoning") => j < i

\* The text an event's delta was sent with: the character that a chunk
\* boundary cut in two reached the callback as two U+FFFD.  The claim is
\* about the order of the events, whatever the decoding made of their text.
SentText(text) == IF text = Replacement \o Replacement THEN EAcute ELSE text
EventsAsSent(evs) == [k \in 1..Len(evs) |-> Event(evs[k].kind, SentText(evs[k].text))]

\* C5: at every moment the events emitted so far are in the arrival order of
\* their deltas, and when every reasoning delta arrived before the first
\* content delta, every reasoning event was emitted before any content event.
C5_EventsInArrivalOrder ==
    /\ IsSubsequence(EventsAsSent(events), ArrivalOrder)
    /\ ReasoningFirst(ArrivalOrder) => ReasoningFirst(events)

\* Witness of C5: a reasoning event and then a content event were emitted,
\* from two frames.
C5_Witness ==
    /\ Len(events) = 2
    /\ events[1] = Event("reasoning", "r")
    /\ events[2] = Event("content", "a")

\* A frame is malformed when its payload is no JSON or is JSON but no object.
MalformedLines == {n \in LineNames : LineText(n).kind \in {"malformed", "null"}}
WithoutMalformed(received) ==
    LET WellFormed(t) == t \notin MalformedLines IN SelectSeq(received, WellFormed)

\* The token starts a well-formed frame that carries a choice.
CarriesChoice(t) ==
    /\ t \notin Whitespace
    /\ LineText(t).kind = "chunk"
    /\ LineText(t).choices # << >>

\* C6 (as claimed): a streamed response without error frame, in which some
\* well-formed frame carries a choice, succeeds with the choices of the same
\* stream without its malformed frames; without any choice it fails with an
\* API error.
C6_MalformedFramesSkipped ==
    (/\ ResponseProcessed /\ StreamedShape
     /\ \A k \in 1..Len(ReceivedText) :
            ReceivedText[k] \in Whitespace \/ LineText(ReceivedText[k]).kind # "error") =>
        IF \E k \in 1..Len(ReceivedText) : CarriesChoice(ReceivedText[k])
        THEN /\ completion.kind = "ok"
             /\ completion = completeResponse(TRUE, WithoutMalformed(ReceivedText))
        ELSE /\ completion.kind = "error"
             /\ completion.error \in
                    {"API Error: Unable to parse streamed response",
                     "API Error: Streamed response did not include any choices",
                     "API Error: Empty response body"}

(***************************************************************************)
(* Properties of generateCommitMessage.                                    *)
(***************************************************************************)
Returned == gpc = "returned"

Elements(seq) == {seq[i] : i \in 1..Len(seq)}

\* Scope enforcement as the claims word it: conventional mode, scope
\* preferred, and a format template that has a <scope> placeholder (or no
\* template).
ScopeEnforcementActive ==
    /\ options.type = "conventional"
    /\ options.conventionalScope = <<TRUE>>
    /\ supportsConventionalScope(options.conventionalFormat)

\* No message of the list has a title of the form type(scope): subject.
NoScopedTitle(list) ==
    \A i \in 1..Len(list) : ~hasConventionalScope(list[i], options.includeDetails)

\* C1: at most two generation passes run; the second one runs exactly when
\* scope enforcement is active and the first pass returned no message with
\* a scoped title; there is no third pass.
C1_AtMostOneRetry ==
    /\ pass \in 0..2
    /\ Len(passMessages) <= pass
    /\ pass = 2 =>
        /\ ScopeEnforcementActive
        /\ Len(passMessages) >= 1
        /\ NoScopedTitle(passMessages[1])
    /\ (Returned /\ pass = 1) =>
        ~(ScopeEnforcementActive /\ NoScopedTitle(passMessages[1]))

\* A call that returned after its retry pass.
C1_Witness == Returned /\ pass = 2 /\ Len(passMessages) = 2 /\ result # << >>

\* C2: with scope enforcement active, when no pass yields a scoped title the
\* call returns the retry pass's list as it is; otherwise it returns the
\* scoped messages of the last pass, all of them and in their order.
C2_RetryListOrScopedSubset ==
    (Returned /\ ScopeEnforcementActive) =>
        IF NoScopedTitle(passMessages[Len(passMessages)])
        THEN /\ Len(passMessages) = 2
             /\ result = passMessages[2]
        ELSE /\ IsSubsequence(result, passMessages[Len(passMessages)])
             /\ \A i \in 1..Len(result) :
                    hasConventionalScope(result[i], options.includeDetails)
             /\ \A m \in Elements(passMessages[Len(passMessages)]) :
                    hasConventionalScope(m, options.includeDetails) => m \in Elements(result)

\* Both passes ran without a scoped title and returned different lists.
C2_Witness ==
    /\ Returned /\ ScopeEnforcementActive
    /\ Len(passMessages) = 2
    /\ NoScopedTitle(passMessages[2])
    /\ passMessages[1] # << >> /\ passMessages[2] # << >>
    /\ passMessages[1] # passMessages[2]
    /\ result = passMessages[2]

\* The messages whose enforceTitleLocale call issued a rewrite request that
\* has settled.
Rewritten == {j \in 1..Len(localizedMessages) :
                localizedMessages[j] # << >> /\ rewriteCompletions[j] # NoCompletion}

\* C7 (as claimed): when the rewrite request of a message fails in any way
\* (the request fails, or its text is empty or unusable), enforceTitleLocale
\* hands on the message it received, and generateCommitMessage throws only
\* because a generation request failed.
C7_FailedRewriteKeepsMessage ==
    /\ \A j \in Rewritten :
        ~rewriteSucceeded(rewriteCompletions[j]) => localizedMessages[j][1] = messages[j]
    /\ gpc = "thrown" => \E i \in 1..Len(completionResponses) :
                            completionResponses[i].kind = "error"

\* The title of message j before its rewrite, and its conventional prefix.
TitleBefore(j) == titleAndBody(messages[j], options.includeDetails).title
PrefixBefore(j) == splitConventionalTitle(TitleBefore(j)).prefix

\* The messages of the returning pass after harmonization and scope
\* normalization, before the empty ones and the duplicates are dropped.
Candidates ==
    scopeNormalizedMessages(options,
        [j \in 1..Len(localizedMessages) |-> localizedMessages[j][1]])

FinalTitle(j) == getMessageTitle(Candidates[j], options.includeDetails)

\* Message j had an English-only subject under the locale zh-CN and its
\* rewrite did not fail, and what became of it is in the returned list.
EnglishRewrittenReturned(j) ==
    /\ options.locale = "zh-CN"
    /\ lacksChinese(splitConventionalTitle(TitleBefore(j)).subject)
    /\ rewriteSucceeded(rewriteCompletions[j])
    /\ Candidates[j] \in Elements(result)

\* C8: with the locale zh-CN, a returned title whose generated subject was
\* English-only and whose rewrite did not fail contains a CJK ideograph.
C8_RewrittenTitleHasCJK ==
    Returned => \A j \in Rewritten :
        EnglishRewrittenReturned(j) => hasChineseCharacter(FinalTitle(j))

\* C9 (as claimed): a returned title whose conventional prefix went through
\* a rewrite starts with the prefix it had before the rewrite.
C9_ReturnedTitleKeepsPrefix ==
    Returned => \A j \in Rewritten :
        (/\ PrefixBefore(j) # ""
         /\ rewriteSucceeded(rewriteCompletions[j])
         /\ Candidates[j] \in Elements(result))
            => StartsWith(FinalTitle(j), PrefixBefore(j))

\* C9 (amended): the message enforceTitleLocale hands on after a rewrite
\* begins with the prefix the title had before the rewrite, whatever the
\* rewrite request returned.
C9_RewriteKeepsPrefix ==
    \A j \in Rewritten :
        (PrefixBefore(j) # "" /\ rewriteSucceeded(rewriteCompletions[j]))
            => StartsWith(localizedMessages[j][1], PrefixBefore(j))

\* A rewrite whose text came with another prefix than the title's.
C9_Witness ==
    \E j \in Rewritten :
        /\ PrefixBefore(j) # ""
        /\ rewriteSucceeded(rewriteCompletions[j])
        /\ firstStringContent(rewriteCompletions[j].choices) = Str("feat: #x")
        /\ StartsWith(localizedMessages[j][1], PrefixBefore(j))
        /\ localizedMessages[j][1] # messages[j]

\* The position of the first occurrence of m in seq.
FirstIndex(seq, m) == CHOOSE i \in 1..Len(seq) : seq[i] = m /\ \A k \in 1..(i - 1) : seq[k] # m

\* C10: the returned list has no two equal strings and no empty string, and
\* its messages stand in the order of their first occurrence among the
\* candidates of the returning pass.
C10_DistinctNonEmptyInOrder ==
    Returned =>
        /\ \A i, j \in 1..Len(result) : i # j => result[i] # result[j]
        /\ \A i \in 1..Len(result) : result[i] # ""
        /\ \E candidates \in {Candidates} :
            /\ Elements(result) \subseteq Elements(candidates)
            /\ \A i, j \in 1..Len(result) :
                    i < j => FirstIndex(candidates, result[i]) < FirstIndex(candidates, result[j])

\* A return where a duplicate candidate was dropped.
C10_Witness ==
    /\ Returned
    /\ result # << >>
    /\ \E i, j \in 1..Len(Candidates) : i # j /\ Candidates[i] = Candidates[j]

(***************************************************************************)
(* C11: the list generateCommitMessage returns is the one computed from    *)
(* what each completion request and each title rewrite settled as, taken   *)
(* by the position of the request and not in the order of settling: the    *)
(* same answers per position give the same list, whatever the interleaving.*)
(* Its messages stand in the order of the requests they come from, and     *)
(* those of one request in the order its completion holds their choices.   *)
(***************************************************************************)
\* Whether requestMessages keeps a message for the choice.
GivesMessage(choice) ==
    /\ IsStr(choice.content)
    /\ sanitizeMessage(choice.content[1], options.includeDetails, options.detailsStyle) # ""

\* Where each message of the pass comes from: the position of the request,
\* the position of the choice among the choices of its completion, and the
\* index the choice carries.
OriginsOfRequest(k) ==
    LET Kept(origin) == GivesMessage(answers[k].choices[origin.position])
    IN  SelectSeq([p \in 1..Len(answers[k].choices) |->
                      [request |-> k, position |-> p,
                       index |-> answers[k].choices[p].index]],
                  Kept)
RECURSIVE OriginsFrom(_)
OriginsFrom(k) ==
    IF k > Len(answers) THEN << >> ELSE OriginsOfRequest(k) \o OriginsFrom(k + 1)
Origins == OriginsFrom(1)

\* Where the message at position i of the returned list comes from: the first
\* candidate that is equal to it.
OriginsOfReturned(origins, candidates) ==
    [i \in 1..Len(result) |-> origins[FirstIndex(candidates, result[i])]]

PositionBefore(a, b) ==
    a.request < b.request \/ (a.request = b.request /\ a.position < b.position)
IndexBefore(a, b) ==
    a.request < b.request \/ (a.request = b.request /\ a.index < b.index)

C11_OrderedByRequestPosition ==
    Returned =>
        /\ ReturnedOfPass(result, options, answers, rewriteAnswers)
        /\ \E origins \in {Origins}, candidates \in {Candidates} :
                /\ Len(origins) = Len(candidates)
                /\ \E from \in {OriginsOfReturned(origins, candidates)} :
                        \A i, j \in 1..Len(result) :
                            i < j => PositionBefore(from[i], from[j])

\* C11 as stated: the messages of one request stand in the order of the
\* indexes of their choices.
C11_OrderedByChoiceIndex ==
    Returned =>
        /\ ReturnedOfPass(result, options, answers, rewriteAnswers)
        /\ \E origins \in {Origins}, candidates \in {Candidates} :
                \E from \in {OriginsOfReturned(origins, candidates)} :
                    \A i, j \in 1..Len(result) : i < j => IndexBefore(from[i], from[j])

\* Two concurrent requests answered differently, one of them with several
\* choices, every message returned, those of the first request first.
C11_Witness ==
    /\ Returned
    /\ Len(answers) = 2
    /\ answers[1] # answers[2]
    /\ \E k \in 1..2 : Len(answers[k].choices) = 3
    /\ Len(result) = 3
    /\ \E origins \in {Origins}, candidates \in {Candidates} :
            \E from \in {OriginsOfReturned(origins, candidates)} :
                from[1].request = 1 /\ from[3].request = 2
    /\ ReturnedOfPass(result, options, <<answers[1], answers[2]>>, rewriteAnswers)
    /\ ~ReturnedOfPass(result, options, <<answers[2], answers[1]>>, rewriteAnswers)

(***************************************************************************)
(* C26: within a pass no title-rewrite request is issued before every      *)
(* message-generation request of the pass has completed, the retry pass    *)
(* starts only after the rewrites of the first pass have all completed,    *)
(* and a rewrite never runs while a generation request runs.               *)
(***************************************************************************)
GenerationRuns ==
    gpc \in {"generating", "rewriting"}
    /\ \E k \in 1..Len(completionResponses) : completionResponses[k] = NoCompletion
RewriteRuns ==
    gpc \in {"generating", "rewriting"}
    /\ \E j \in 1..Len(localizedMessages) : localizedMessages[j] = << >>
RunningRequests ==
    Cardinality({k \in 1..Len(completionResponses) : completionResponses[k] = NoCompletion})
    + Cardinality({j \in 1..Len(localizedMessages) : localizedMessages[j] = << >>})

RewritesFollowGeneration ==
    /\ ~(GenerationRuns /\ RewriteRuns)
    /\ gpc = "generating" => GenerationRuns /\ localizedMessages = << >>
    /\ gpc = "rewriting" => RewriteRuns /\ allResolved(completionResponses)
    /\ pass = 2 => Len(passMessages) >= 1

\* The step that starts the retry pass settles the one request of the first
\* pass that still ran.
RetryFollowsFirstPass == (pass = 1 /\ pass' = 2) => RunningRequests = 1

C26_RewriteAfterGeneration == []RewritesFollowGeneration /\ [][RetryFollowsFirstPass]_vars

\* The retry pass rewrites a title: its two generation requests have
\* resolved, and the first pass had rewritten titles too.
C26_Witness ==
    /\ pass = 2 /\ gpc = "rewriting"
    /\ Len(completionResponses) = 2 /\ allResolved(completionResponses)
    /\ RewriteRuns
    /\ options.locale = "zh-CN"

(***************************************************************************)
(* Properties of the type classifier (checked under SpecJudge).            *)
(***************************************************************************)
\* The classification request has settled.
Classified == classifier \in {"Locked", "Unlocked"}

\* The entries the report was built from.
ScoresOfReport ==
    IF judgeReport[1].source = "topCandidates"
    THEN parseJudgeTopCandidates(judgeReply.topCandidates, conventionalTypes)
    ELSE judgeReply.scores

\* All the ranked candidates of the report, of which it keeps the first.
Ranked ==
    IF judgeReport = << >> THEN << >>
    ELSE getRankedTypesByJudgeScores(conventionalTypes, ScoresOfReport)

GateFailing(item) == item.weightCategory \in {"fix", "perf"} /\ ~item.modelHardGatePass

SelectedPassesGate(ranked, selectedType) ==
    /\ (\E i \in 1..Len(ranked) : ranked[i].hardGatePass) =>
            \E i \in 1..Len(ranked) :
                /\ ranked[i].hardGatePass
                /\ ~GateFailing(ranked[i])
                /\ selectedType = <<ranked[i].typeName>>
    /\ (ranked # << >> /\ \A i \in 1..Len(ranked) : ~ranked[i].hardGatePass) =>
            /\ \A i \in 1..Len(ranked) : GateFailing(ranked[i])
            /\ selectedType = <<ranked[1].typeName>>

(***************************************************************************)
(* C12: whenever a ranked candidate passes its effective gate, the         *)
(* selected type is one of a candidate that passes it, whatever the        *)
(* weighted scores: a fix or perf candidate the model failed is not        *)
(* selected then.  When every ranked candidate is a fix or perf candidate  *)
(* the model failed, the first of the ranking is selected.                 *)
(***************************************************************************)
C12_SelectedPassesGate ==
    judgeReport # << >> =>
        /\ lockedConventionalType = judgeReport[1].selectedType
        /\ SelectedPassesGate(Ranked, judgeReport[1].selectedType)

FailedCandidateScoresMost(ranked, selectedType) ==
    \E i, k \in 1..Len(ranked) :
        /\ GateFailing(ranked[i])
        /\ \A h \in 1..Len(ranked) : ranked[h].weightedScore <= ranked[i].weightedScore
        /\ ranked[k].hardGatePass
        /\ ranked[k].weightedScore < ranked[i].weightedScore
        /\ selectedType = <<ranked[k].typeName>>

\* A fix or perf candidate the model failed has the greatest weighted score
\* of all, and another candidate is selected.
C12_Witness ==
    judgeReport # << >> /\ FailedCandidateScoresMost(Ranked, lockedConventionalType)

\* The gate the model reported for the type of a ranked candidate.
ReportedGate(scores, item) ==
    readBooleanField(scoreOfKey(scores, normalizeKey(item.typeName))[1].hardGatePass)[1]

HardGateOverride(ranked, scores) ==
    \A i \in 1..Len(ranked) :
        /\ ranked[i].modelHardGatePass = ReportedGate(scores, ranked[i])
        /\ ranked[i].hardGatePass =
                (IF ranked[i].weightCategory \in {"fix", "perf"}
                 THEN ReportedGate(scores, ranked[i]) ELSE TRUE)

(***************************************************************************)
(* C13: for every scored candidate modelHardGatePass is the gate the model *)
(* reported, and hardGatePass is that gate for the categories fix and      *)
(* perf and true for every other category.                                 *)
(***************************************************************************)
C13_HardGateOverride ==
    judgeReport # << >> => HardGateOverride(Ranked, ScoresOfReport)

FailedOfBothKinds(ranked) ==
    \E i, k \in 1..Len(ranked) :
        /\ ranked[i].weightCategory \notin {"fix", "perf"}
        /\ ~ranked[i].modelHardGatePass /\ ranked[i].hardGatePass
        /\ ranked[k].weightCategory \in {"fix", "perf"}
        /\ ~ranked[k].modelHardGatePass /\ ~ranked[k].hardGatePass

\* The model failed a candidate that is neither fix nor perf, and one that
\* is: the first passes, the second does not.
C13_Witness == FailedOfBothKinds(Ranked)

\* The weighted scores of a and b count as tied: neither exceeds the other
\* by more than 1e-6.
Tied(a, b) == ~exceedsEpsilon(a, b) /\ ~exceedsEpsilon(b, a)

RankedInOrder(ranked) ==
    \A i, j \in 1..Len(ranked) :
        i < j =>
            /\ ranked[j].hardGatePass => ranked[i].hardGatePass
            /\ ranked[i].hardGatePass = ranked[j].hardGatePass =>
                    /\ ~exceedsEpsilon(ranked[j], ranked[i])
                    /\ Tied(ranked[i], ranked[j]) =>
                            ranked[i].typeWeight >= ranked[j].typeWeight

FirstThreeKept(ranked, topCandidates) ==
    /\ Len(topCandidates) = (IF Len(ranked) < 3 THEN Len(ranked) ELSE 3)
    /\ topCandidates = SubSeq(ranked, 1, Len(topCandidates))

(***************************************************************************)
(* C14: in the ranking every candidate that passes its gate stands before  *)
(* every one that does not; of two candidates with the same gate value the *)
(* one with the greater weighted score stands first, unless the scores are *)
(* within 1e-6 of each other, and then the one with the greater typeWeight *)
(* stands first.  The report keeps the first three of the ranking.         *)
(***************************************************************************)
C14_RankedInOrder ==
    judgeReport # << >> =>
        /\ RankedInOrder(Ranked)
        /\ FirstThreeKept(Ranked, judgeReport[1].topCandidates)

\* The near ties of three candidates with the same gate value form no
\* order: the scores of two pairs are within 1e-6, those of the third pair
\* are not.
TiesInCycle(ranked) ==
    /\ Len(ranked) = 3
    /\ \A i \in 1..3 : ranked[i].hardGatePass
    /\ \E a, b, c \in 1..3 :
        /\ Tied(ranked[a], ranked[b]) /\ Tied(ranked[b], ranked[c])
        /\ ~Tied(ranked[a], ranked[c])

C14_Witness == TiesInCycle(Ranked)

(***************************************************************************)
(* C15: when the classification request throws, or its answer gives no     *)
(* scored candidate, generateCommitMessage goes on without a locked type:  *)
(* it issues the generation request with the prompt of the unlocked case,  *)
(* and ends as that request ends.  While the classifier scores, the call   *)
(* has not ended.                                                          *)
(***************************************************************************)
C15_ClassificationFailureNotFatal ==
    /\ lpc = "classifying" => classifier = "Scoring" /\ generated = << >>
    /\ classifier = "Scoring" => lpc = "classifying"
    /\ (judgeReply # << >> /\ Ranked = << >>) =>
            /\ classifier = "Unlocked"
            /\ lockedConventionalType = << >>
            /\ lpc \in {"generating", "returned", "thrown"}
            /\ systemPrompt = promptOfCall(commitType, conventionalTypes, << >>)
    /\ lpc = "thrown" => systemPrompt # << >> /\ generated = <<"Time out error">>

\* The classification request threw, and the call returned the messages of
\* the generation request.
C15_Witness ==
    /\ judgeReply # << >>
    /\ judgeReply.kind = "error"
    /\ classifier = "Unlocked"
    /\ lpc = "returned"
    /\ generated = <<"refactor(api): move x", "fix: add x">>

HasLine(lines, line) == \E i \in 1..Len(lines) : lines[i] = line

HasLineFrom(lines, start) == \E i \in 1..Len(lines) : StartsWith(lines[i], start)

\* The lines that hand the catalog and the selection rules to the model.
CatalogLines(types) ==
    {"Choose a type from the type-to-description JSON below that best describes the git diff:"}
    \cup Elements(catalogJson(types)) \cup Elements(TypeSelectionRules)

LockedPrompt(lines, types, locked) ==
    /\ HasLine(lines, "Selected conventional type (locked): " \o locked)
    /\ \A i \in 1..Len(lines) :
            StartsWith(lines[i], "Selected conventional type (locked): ") =>
                lines[i] = "Selected conventional type (locked): " \o locked
    /\ HasLineFrom(lines, "Use this exact type in the title prefix.")
    /\ \A line \in CatalogLines(types) : ~HasLine(lines, line)

UnlockedPrompt(lines, types) ==
    /\ ~HasLineFrom(lines, "Selected conventional type (locked): ")
    /\ ~HasLineFrom(lines, "Use this exact type in the title prefix.")
    /\ \A line \in CatalogLines(types) : HasLine(lines, line)

(***************************************************************************)
(* C16: the system prompt of the generation request of a conventional call *)
(* names the locked type, and no other, in the locked-type instruction and *)
(* holds neither the catalog nor the selection rules when the classifier   *)
(* locked a type; it holds the catalog and the rules, and no locked-type   *)
(* instruction, when no type is locked.                                    *)
(***************************************************************************)
C16_LockedTypeInPrompt ==
    (commitType = "conventional" /\ lpc \in {"generating", "returned", "thrown"}) =>
        IF lockedConventionalType # << >>
        THEN /\ classifier = "Locked"
             /\ LockedPrompt(systemPrompt, conventionalTypes, lockedConventionalType[1])
        ELSE /\ classifier = "Unlocked"
             /\ UnlockedPrompt(systemPrompt, conventionalTypes)

\* The classifier locked the type fix, and the generation request was made.
C16_Witness ==
    /\ classifier = "Locked"
    /\ lockedConventionalType = <<"fix">>
    /\ lpc = "returned"
    /\ HasLine(systemPrompt, "Selected conventional type (locked): fix")

(***************************************************************************)
(* Properties of the sanitizer (checked under SpecGen).                    *)
(***************************************************************************)
\* One line, without white space or a quote character at either end.
CleanLine(m) ==
    /\ ~Contains(m, "\n") /\ ~Contains(m, "\r")
    /\ Trim(m) = m
    /\ m # "" => ~IsQuote(Char(m, 1)) /\ ~IsQuote(Char(m, Len(m)))

(***************************************************************************)
(* C17: without details every sanitized message is a single line with no   *)
(* white space and no quote character at its start or at its end.          *)
(***************************************************************************)
C17_SanitizedIsCleanLine ==
    (gpc \in {"rewriting", "returned"} /\ ~options.includeDetails) =>
        \A j \in 1..Len(messages) : CleanLine(messages[j])

\* Without details, the text of a completion sanitized to a message.
C17_Witness ==
    /\ gpc \in {"rewriting", "returned"}
    /\ ~options.includeDetails
    /\ messages # << >>
    /\ \E i \in 1..Len(completionResponses) :
            /\ completionResponses[i].choices[1].content # NoStr
            /\ messages[1] = sanitizeSimpleMessage(completionResponses[i].choices[1].content[1])
            /\ messages[1] # completionResponses[i].choices[1].content[1]

(***************************************************************************)
(* Configuration (config.ts, held in part_004): the scalars of config.toml, *)
(* the parsers of configParsers and getConfig.                             *)
(*                                                                         *)
(* A raw configuration value is a record: kind is the JavaScript type      *)
(* ("undefined", "string", "number", "boolean"); a string has its text; a  *)
(* number is NaN (nan), or int plus a fraction that is zero (frac FALSE)   *)
(* or not (frac TRUE); a boolean has bool.                                 *)
(***************************************************************************)
Undefined ==
    [kind |-> "undefined", text |-> "", nan |-> FALSE, int |-> 0, frac |-> FALSE,
     bool |-> FALSE]
RawString(s) == [Undefined EXCEPT !.kind = "string", !.text = s]
RawNumber(n) == [Undefined EXCEPT !.kind = "number", !.int = n]
NotANumber == [Undefined EXCEPT !.kind = "number", !.nan = TRUE]
RawBoolean(b) == [Undefined EXCEPT !.kind = "boolean", !.bool = b]

AllDigits(s) == s # "" /\ \A i \in 1..Len(s) : IsDigit(Char(s, i))

RECURSIVE DigitsValue(_)
\* The value of a string of decimal digits.
DigitsValue(s) ==
    IF s = "" THEN 0
    ELSE DigitsValue(Slice(s, 1, Len(s) - 1)) * 10
         + (IndexOf(Digits, Char(s, Len(s)), 1) - 1)

\* Number(text) for a text in decimal notation without exponent: white space
\* around it is dropped, the empty text is 0, a sign and a fraction are
\* allowed, anything else is NaN.
NumberOfParts(negative, whole, fraction) ==
    IF /\ whole = "" \/ AllDigits(whole)
       /\ fraction = "" \/ AllDigits(fraction)
       /\ whole # "" \/ fraction # ""
    THEN [RawNumber(IF negative THEN 0 - DigitsValue(whole) ELSE DigitsValue(whole))
              EXCEPT !.frac = \E i \in 1..Len(fraction) : Char(fraction, i) # "0"]
    ELSE NotANumber
NumberOfUnsigned(negative, body, dot) ==
    IF dot = 0 THEN NumberOfParts(negative, body, "")
    ELSE NumberOfParts(negative, Slice(body, 1, dot - 1), From(body, dot + 1))
NumberOfSigned(negative, body) == NumberOfUnsigned(negative, body, IndexOf(body, ".", 1))
NumberOfTrimmed(t) ==
    IF t = "" THEN RawNumber(0)
    ELSE IF Char(t, 1) \in {"+", "-"} THEN NumberOfSigned(Char(t, 1) = "-", From(t, 2))
    ELSE NumberOfSigned(FALSE, t)
StringToNumber(text) == NumberOfTrimmed(Trim(text))

\* Number(value) of a raw value that is a string or a number
ToNumber(value) == IF value.kind = "string" THEN StringToNumber(value.text) ELSE value

\* Number.prototype.toString of an integer or of NaN
NumberToString(n) ==
    IF n.nan THEN "NaN"
    ELSE IF n.int < 0 THEN "-" \o DecimalText(0 - n.int)
    ELSE DecimalText(n.int)

\* !value
Falsy(value) ==
    \/ value.kind = "undefined"
    \/ value.kind = "string" /\ value.text = ""
    \/ value.kind = "number" /\ (value.nan \/ (value.int = 0 /\ ~value.frac))
    \/ value.kind = "boolean" /\ ~value.bool

\* Number.isInteger(parsed)
IsInteger(parsed) == ~parsed.nan /\ ~parsed.frac

\* /^[+-]?\d+$/.test(value) || /^[+-]?\d+\.\d+$/.test(value)
IsUnsignedTomlNumber(body, dot) ==
    \/ AllDigits(body)
    \/ dot # 0 /\ AllDigits(Slice(body, 1, dot - 1)) /\ AllDigits(From(body, dot + 1))
IsTomlNumberBody(body) == IsUnsignedTomlNumber(body, IndexOf(body, ".", 1))
IsTomlNumber(value) ==
    IF Char(value, 1) \in {"+", "-"} THEN IsTomlNumberBody(From(value, 2))
    ELSE IsTomlNumberBody(value)

\* parseTomlScalar, for quoted strings without an escape sequence
tomlScalarOfTrimmed(value) ==
    IF value = "" THEN RawString("")
    ELSE IF StartsWith(value, "\"") /\ Char(value, Len(value)) = "\""
    THEN RawString(Slice(value, 2, Len(value) - 1))
    ELSE IF StartsWith(value, "'") /\ Char(value, Len(value)) = "'"
    THEN RawString(Slice(value, 2, Len(value) - 1))
    ELSE IF ToLowerCase(value) \in {"true", "false"}
    THEN RawBoolean(ToLowerCase(value) = "true")
    ELSE IF IsTomlNumber(value) THEN StringToNumber(value)
    ELSE RawString(value)
parseTomlScalar(rawValue) == tomlScalarOfTrimmed(Trim(rawValue))

\* What a parser of configParsers does: it returns a value, or it throws a
\* KnownError with the message of parseAssert.
Parsed(field, value) ==
    [error |-> "", int |-> IF field = "int" THEN value ELSE 0,
     text |-> IF field = "text" THEN value ELSE "",
     bool |-> IF field = "bool" THEN value ELSE FALSE]
Invalid(name, message) ==
    [error |-> "Invalid config property " \o name \o ": " \o message,
     int |-> 0, text |-> "", bool |-> FALSE]

\* configParsers.generate
generateOfNumber(parsed) ==
    IF ~IsInteger(parsed) THEN Invalid("generate", "Must be an integer")
    ELSE IF ~(parsed.int > 0) THEN Invalid("generate", "Must be greater than 0")
    ELSE IF ~(parsed.int <= 5) THEN Invalid("generate", "Must be less or equal to 5")
    ELSE Parsed("int", parsed.int)
parseGenerate(count) ==
    IF Falsy(count) THEN Parsed("int", 1)
    ELSE IF count.kind \notin {"string", "number"} THEN Invalid("generate", "Must be an integer")
    ELSE generateOfNumber(ToNumber(count))

commitTypes == {"", "conventional"}

\* configParsers.type
parseType(type) ==
    IF Falsy(type) THEN Parsed("text", "")
    ELSE IF type.kind # "string" THEN Invalid("type", "Must be a string")
    ELSE IF type.text \notin commitTypes THEN Invalid("type", "Invalid commit type")
    ELSE Parsed("text", type.text)

\* configParsers.timeout
timeoutOfNumber(parsed) ==
    IF ~IsInteger(parsed) THEN Invalid("timeout", "Must be an integer")
    ELSE IF ~(parsed.int >= 500) THEN Invalid("timeout", "Must be greater than 500ms")
    ELSE Parsed("int", parsed.int)
parseTimeout(timeout) ==
    IF Falsy(timeout) THEN Parsed("int", 10000)
    ELSE IF timeout.kind \notin {"string", "number"} THEN Invalid("timeout", "Must be an integer")
    ELSE timeoutOfNumber(ToNumber(timeout))

\* configParsers['max-length']
maxLengthOfNumber(parsed) ==
    IF ~IsInteger(parsed) THEN Invalid("max-length", "Must be an integer")
    ELSE IF ~(parsed.int >= 20)
    THEN Invalid("max-length", "Must be greater than 20 characters")
    ELSE Parsed("int", parsed.int)
parseMaxLength(maxLength) ==
    IF Falsy(maxLength) THEN Parsed("int", 50)
    ELSE IF maxLength.kind \notin {"string", "number"}
    THEN Invalid("max-length", "Must be an integer")
    ELSE maxLengthOfNumber(ToNumber(maxLength))

\* parseBoolean
booleanOfNormalized(name, normalized) ==
    IF normalized \in {"true", "1", "yes", "on"} THEN Parsed("bool", TRUE)
    ELSE IF normalized \in {"false", "0", "no", "off"} THEN Parsed("bool", FALSE)
    ELSE Invalid(name, "Must be a boolean (true/false)")
parseBoolean(name, value, defaultValue) ==
    IF value.kind = "undefined" \/ (value.kind = "string" /\ value.text = "")
    THEN Parsed("bool", defaultValue)
    ELSE IF value.kind = "boolean" THEN Parsed("bool", value.bool)
    ELSE IF value.kind = "number" /\ IsInteger(value) /\ value.int \in {0, 1}
    THEN Parsed("bool", value.int = 1)
    ELSE IF value.kind = "string" THEN booleanOfNormalized(name, ToLowerCase(Trim(value.text)))
    ELSE Invalid(name, "Must be a boolean (true/false)")

\* configParsers.details
parseDetails(details) == parseBoolean("details", details, FALSE)

\* configParsers['details-style']
detailsStyleOfNormalized(normalized) ==
    IF normalized \notin {"paragraph", "list"}
    THEN Invalid("details-style", "Must be one of: paragraph, list")
    ELSE Parsed("text", normalized)
parseDetailsStyle(detailsStyle) ==
    IF detailsStyle.kind = "undefined" \/ (detailsStyle.kind = "string" /\ detailsStyle.text = "")
    THEN Parsed("text", "paragraph")
    ELSE IF detailsStyle.kind # "string"
    THEN Invalid("details-style", "Must be a string")
    ELSE detailsStyleOfNormalized(ToLowerCase(Trim(detailsStyle.text)))

\* configParsers['conventional-scope']
parseConventionalScope(conventionalScope) ==
    parseBoolean("conventional-scope", conventionalScope, TRUE)

\* The keys of configParsers that are modelled, in the order of Object.keys.
ConfigKeys == <<"generate", "type", "timeout", "max-length", "details", "details-style">>

\* configParsers[key](value)
parserOf(key, value) ==
    CASE key = "generate" -> parseGenerate(value)
      [] key = "type" -> parseType(value)
      [] key = "timeout" -> parseTimeout(value)
      [] key = "max-length" -> parseMaxLength(value)
      [] key = "details" -> parseDetails(value)
      [] key = "details-style" -> parseDetailsStyle(value)
      [] key = "conventional-scope" -> parseConventionalScope(value)

\* stripTomlComment: the line up to the first number sign that stands outside
\* quotes.  In the lines of the config file "#" is the number sign itself.
RECURSIVE stripTomlCommentFrom(_, _, _, _, _)
stripTomlCommentFrom(line, index, inSingleQuote, inDoubleQuote, escaping) ==
    IF index > Len(line) THEN line
    ELSE IF Char(line, index) = "\\" /\ inDoubleQuote /\ ~escaping
    THEN stripTomlCommentFrom(line, index + 1, inSingleQuote, inDoubleQuote, TRUE)
    ELSE IF Char(line, index) = "\"" /\ ~inSingleQuote /\ ~escaping
    THEN stripTomlCommentFrom(line, index + 1, inSingleQuote, ~inDoubleQuote, FALSE)
    ELSE IF Char(line, index) = "'" /\ ~inDoubleQuote
    THEN stripTomlCommentFrom(line, index + 1, ~inSingleQuote, inDoubleQuote, FALSE)
    ELSE IF Char(line, index) = "#" /\ ~inSingleQuote /\ ~inDoubleQuote
    THEN Slice(line, 1, index - 1)
    ELSE stripTomlCommentFrom(line, index + 1, inSingleQuote, inDoubleQuote, FALSE)
stripTomlComment(line) == stripTomlCommentFrom(line, 1, FALSE, FALSE, FALSE)

\* parseTomlKey
tomlKeyOfTrimmed(key) ==
    IF Len(key) >= 1
       /\ \/ StartsWith(key, "\"") /\ Char(key, Len(key)) = "\""
          \/ StartsWith(key, "'") /\ Char(key, Len(key)) = "'"
    THEN Slice(key, 2, Len(key) - 1)
    ELSE key
parseTomlKey(rawKey) == tomlKeyOfTrimmed(Trim(rawKey))

\* The body of the loop of parseTomlConfig for one line at top level: the key
\* and the value the line sets, or << >> for a line that sets none (a blank
\* line, a comment, a section header, a line without a key).
TomlEntry(key, value) == <<[key |-> key, value |-> value]>>
tomlEntryOfKey(key, line, separatorIndex) ==
    IF key = "" THEN << >>
    ELSE TomlEntry(key, parseTomlScalar(From(line, separatorIndex + 1)))
tomlEntryAt(line, separatorIndex) ==
    IF separatorIndex <= 1 THEN << >>
    ELSE tomlEntryOfKey(parseTomlKey(Slice(line, 1, separatorIndex - 1)), line, separatorIndex)
tomlEntryOfStripped(line) ==
    IF line = "" THEN << >>
    ELSE IF StartsWith(line, "[") /\ Char(line, Len(line)) = "]" THEN << >>
    ELSE tomlEntryAt(line, IndexOf(line, "=", 1))
parseTomlLine(rawLine) == tomlEntryOfStripped(Trim(stripTomlComment(rawLine)))

\* readConfigFile and asRawConfigValue(config[key]) for a file that gives each
\* key at most once, at top level, in a line "key = text": undefined when the
\* file has no line of the key or the line sets no value for it.
valueOfEntry(entry, key) ==
    IF entry # << >> /\ entry[1].key = key THEN entry[1].value ELSE Undefined
fileValue(file, key) ==
    IF file[key] = << >> THEN Undefined
    ELSE valueOfEntry(parseTomlLine(key \o " = " \o file[key][1]), key)

\* cliConfig?.[key] ?? asRawConfigValue(config[key]), with no profile selected
\* and no legacy key in the file
rawConfigValue(cliConfig, file, key) ==
    IF cliConfig[key].kind # "undefined" THEN cliConfig[key] ELSE fileValue(file, key)

\* getConfig(cliConfig) without suppressErrors: the parsers run in the order
\* of the keys and the first error is thrown.
HasError(parsed) == parsed.error # ""
configOfParsed(parsed, thrown) ==
    [error |-> IF thrown = << >> THEN "" ELSE thrown[1].error,
     generate |-> parsed[1].int, type |-> parsed[2].text,
     timeout |-> parsed[3].int, maxLength |-> parsed[4].int,
     details |-> parsed[5].bool, detailsStyle |-> parsed[6].text]
configOfValues(parsed) == configOfParsed(parsed, SelectSeq(parsed, HasError))
getConfig(cliConfig, file) ==
    configOfValues([i \in 1..Len(ConfigKeys) |->
                       parserOf(ConfigKeys[i], rawConfigValue(cliConfig, file, ConfigKeys[i]))])

(***************************************************************************)
(* One run of the command (commands/aicommits.ts) or of the                *)
(* prepare-commit-msg hook (commands/prepare-commit-msg-hook.ts), started  *)
(* inside a git repository with an API key configured.  generateCommitMessage *)
(* is one step: it issues the chat completion request and settles with a   *)
(* list of messages or with an error.                                      *)
(* In the texts below "*" stands for the robot emoji of the hook and for   *)
(* the check and cross marks of the last line printed.                     *)
(***************************************************************************)
NoStagedChangesError ==
    "No staged changes found. Stage your changes manually, or automatically stage all changes with the ~--all~ flag."
EmptyResultError == "No commit messages were generated. Try again."
MissingMessageFileError ==
    "Commit message file path is missing. This file should be called from the \"prepare-commit-msg\" git hook"
TtyInitializationError ==
    "Interactive terminal initialization failed in this environment. Re-run with ~--confirm~ or ~--yes~ to skip prompts."
ChatCompletionRequest == "chat completion request"
GitAddUpdate == "git add --update"
GitCommit == "git commit"
AppendFile == "fs.appendFile"

\* The flags of a run that no case sets.
NoFlags ==
    [stageAll |-> FALSE, autoConfirm |-> FALSE, generate |-> << >>,
     commitType |-> << >>, includeDetails |-> FALSE, detailsStyle |-> << >>,
     installed |-> "wrapper", gitArguments |-> << >>, baseMessage |-> ""]

\* What the command line of the command can say about the configuration:
\* one flag at a time.
CliSettings ==
    {NoFlags}
    \cup {[NoFlags EXCEPT !.generate = <<n>>] : n \in {RawNumber(0), RawNumber(3), RawNumber(6), NotANumber}}
    \cup {[NoFlags EXCEPT !.commitType = <<t>>] : t \in {"", "conventional", "feat"}}
    \cup {[NoFlags EXCEPT !.detailsStyle = <<t>>] : t \in {" LIST ", "bullets"}}
    \cup {[NoFlags EXCEPT !.includeDetails = TRUE]}

NoFile == [key \in {ConfigKeys[i] : i \in 1..Len(ConfigKeys)} |-> << >>]

\* The config.toml files of the runs: no line, or one line "key = text".
FileSettings ==
    {NoFile}
    \cup {[NoFile EXCEPT !["generate"] = <<t>>] :
            t \in {"0", "3", "6", "-1", "2.5", "\"4\"", "false", "many", "3 # three"}}
    \cup {[NoFile EXCEPT !["type"] = <<t>>] :
            t \in {"\"conventional\"", "\"chore\"", "0", "true"}}
    \cup {[NoFile EXCEPT !["timeout"] = <<t>>] : t \in {"0", "499", "500", "'fast'"}}
    \cup {[NoFile EXCEPT !["max-length"] = <<t>>] : t \in {"0", "19", "20", "\"72\""}}
    \cup {[NoFile EXCEPT !["details"] = <<t>>] : t \in {"TRUE", "\"yes\"", "2", "\"maybe\""}}
    \cup {[NoFile EXCEPT !["details-style"] = <<t>>] : t \in {"\"list\"", "\"table\"", "1", "\"list # x\""}}

\* The command line and the file of a run: a flag or a line, or the flag
\* and the line of generate together.
Settings ==
    {<<flags, NoFile>> : flags \in CliSettings}
    \cup {<<NoFlags, file>> : file \in FileSettings}
    \cup {<<[NoFlags EXCEPT !.generate = <<RawNumber(3)>>], [NoFile EXCEPT !["generate"] = <<"0">>]>>,
          <<[NoFlags EXCEPT !.generate = <<RawNumber(0)>>], [NoFile EXCEPT !["generate"] = <<"3">>]>>}

\* The index and the tracked files of the work tree.
Repositories == [staged : BOOLEAN, unstaged : BOOLEAN]

\* The cliConfig object the command hands to getConfig
commandCliConfig(flags) ==
    [key \in {ConfigKeys[i] : i \in 1..Len(ConfigKeys)} |->
        CASE key = "generate" ->
                 IF flags.generate = << >> THEN Undefined
                 ELSE RawString(NumberToString(flags.generate[1]))
          [] key = "type" ->
                 IF flags.commitType = << >> THEN Undefined
                 ELSE RawString(flags.commitType[1])
          [] key = "details" ->
                 IF flags.includeDetails THEN RawString("true") ELSE Undefined
          [] key = "details-style" ->
                 IF flags.detailsStyle = << >> THEN Undefined
                 ELSE RawString(flags.detailsStyle[1])
          [] OTHER -> Undefined]

\* getConfig({}) of the hook
hookCliConfig == [key \in {ConfigKeys[i] : i \in 1..Len(ConfigKeys)} |-> Undefined]

\* git add --update: the changes of the tracked files enter the index.
gitAddUpdate(index) ==
    [staged |-> index.staged \/ index.unstaged, unstaged |-> FALSE]

\* git add --update left out
gitAddNothing(index) == index

\* An error of the request (request.on('error') of httpsPost): the fields of
\* the Node.js error, and the host the connection was made to (the proxy
\* when one is configured, the API host otherwise).
RequestError(code, syscall, hostname, message, host) ==
    [code |-> code, syscall |-> syscall, hostname |-> hostname, message |-> message,
     host |-> host]
RequestErrors ==
    {RequestError("ENOTFOUND", "getaddrinfo", <<"api.openai.com">>,
                  "getaddrinfo ENOTFOUND api.openai.com", "api.openai.com"),
     RequestError("ENOTFOUND", "getaddrinfo", <<"proxy.example">>,
                  "getaddrinfo ENOTFOUND proxy.example", "proxy.example"),
     RequestError("EAI_AGAIN", "getaddrinfo", <<"api.openai.com">>,
                  "getaddrinfo EAI_AGAIN api.openai.com", "api.openai.com"),
     RequestError("ECONNREFUSED", "connect", << >>,
                  "connect ECONNREFUSED 203.0.113.7:443", "api.openai.com"),
     RequestError("ECONNREFUSED", "connect", << >>,
                  "connect ECONNREFUSED 127.0.0.1:1234", "localhost")}

\* `${value}` of a field that may be undefined
TextOf(field) == IF field = << >> THEN "undefined" ELSE field[1]

\* What generateCommitMessage settles as: the list it returns, or the error
\* it throws (a KnownError or another error) and the request error behind it.
Returns(list) == [error |-> "", known |-> TRUE, cause |-> << >>, messages |-> list]
Throws(known, message, cause) ==
    [error |-> message, known |-> known, cause |-> cause, messages |-> << >>]

\* openai.ts 1045-1052, the catch of generateCommitMessage for an error of the
\* request: ENOTFOUND becomes a KnownError, any other error is thrown as it is.
thrownOfRequestError(error) ==
    IF error.code = "ENOTFOUND"
    THEN Throws(TRUE,
                "Error connecting to " \o TextOf(error.hostname) \o " (" \o error.syscall
                \o "). Are you connected to the internet?",
                <<error>>)
    ELSE Throws(FALSE, error.message, <<error>>)

\* The catch with no conversion at all
thrownAsItIs(error) == Throws(FALSE, error.message, <<error>>)

\* openai.ts 203-214, createChatCompletion for a status code outside 200-299:
\* the message of the KnownError it throws, body being the data received.
apiErrorMessage(statusCode, statusMessage, body) ==
    "API Error: " \o DecimalText(statusCode) \o " - " \o statusMessage
    \o (IF body # "" THEN "\n\n" \o body ELSE "")

\* What generateCommitMessage settles as for the command and the hook: a list
\* of messages, the error of an HTTP 401 answer without a body, or the error
\* of a failed request.
GenerationOutcomes ==
    {Returns(<< >>), Returns(<<"feat: add x">>),
     Returns(<<"feat: add x", "fix: handle y">>),
     Throws(TRUE, apiErrorMessage(401, "Unauthorized", ""), << >>)}
    \cup {thrownOfRequestError(error) : error \in RequestErrors}

fallbackBugReportUrl == "https://github.com/sugarmo/aicommits/issues/new/choose"

\* A value of the field "repository" of package.json: a string, an object
\* (url is << >> when it has no key 'url', else <<the value of the key>>), or
\* a value of another type.
RepositoryString(text) == [type |-> "string", text |-> text, url |-> << >>]
RepositoryObject(url) == [type |-> "object", text |-> "", url |-> url]
NoRepository == [type |-> "undefined", text |-> "", url |-> << >>]

\* value.replace(/^prefix/, '')
withoutPrefix(value, prefix) ==
    IF StartsWith(value, prefix) THEN From(value, Len(prefix) + 1) ELSE value

\* value.replace(/\.git$/, '')
withoutGitSuffix(value) ==
    IF Len(value) >= 4 /\ From(value, Len(value) - 3) = ".git"
    THEN Slice(value, 1, Len(value) - 4) ELSE value

normalizeRepositoryPath(value) ==
    withoutGitSuffix(withoutPrefix(withoutPrefix(Trim(value), "github:"), "git+"))

\* /^[^/\s]+\/[^/\s]+$/.test(text)
isOwnerAndName(text) ==
    /\ IndexOf(text, "/", 1) > 1
    /\ IndexOf(text, "/", 1) < Len(text)
    /\ IndexOf(text, "/", IndexOf(text, "/", 1) + 1) = 0
    /\ \A k \in 1..Len(text) : ~IsSpace(Char(text, k))

\* The group of normalized.match(/^prefix([^/\s]+\/[^/\s]+)$/): << >> when
\* there is no match.
pathAfter(normalized, prefix) ==
    IF StartsWith(normalized, prefix) /\ isOwnerAndName(From(normalized, Len(prefix) + 1))
    THEN <<From(normalized, Len(prefix) + 1)>> ELSE << >>

\* getGitHubRepositoryPath of a string, from its normalized text.
pathOfNormalized(normalized) ==
    IF isOwnerAndName(normalized) THEN <<normalized>>
    ELSE IF pathAfter(normalized, "git@github.com:") # << >>
         THEN pathAfter(normalized, "git@github.com:")
    ELSE IF pathAfter(normalized, "https://github.com/") # << >>
         THEN pathAfter(normalized, "https://github.com/")
    ELSE pathAfter(normalized, "http://github.com/")

RECURSIVE getGitHubRepositoryPath(_)
\* << >> is undefined.
getGitHubRepositoryPath(value) ==
    IF value.type = "string" THEN pathOfNormalized(normalizeRepositoryPath(value.text))
    ELSE IF value.type = "object" /\ value.url # << >>
         THEN getGitHubRepositoryPath(value.url[1])
    ELSE << >>

bugReportUrl(packageRepository) ==
    IF getGitHubRepositoryPath(packageRepository) # << >>
    THEN "https://github.com/" \o getGitHubRepositoryPath(packageRepository)[1]
         \o "/issues/new/choose"
    ELSE fallbackBugReportUrl

\* What package.json may hold as its repository.
PackageRepositories ==
    {RepositoryString("sugarmo/aicommits"),
     RepositoryString("git@github.com:sugarmo/aicommits.git"),
     RepositoryString("github:Nutlope/aicommits"),
     RepositoryString("https://gitlab.com/sugarmo/aicommits"),
     RepositoryObject(<<RepositoryString("git+https://github.com/Nutlope/aicommits.git")>>),
     RepositoryObject(<< >>),
     NoRepository}

\* handleCliError: for an error that is no KnownError, the request to open a
\* bug report (after the stack and the version, which are left out).
handleCliError(known, packageRepository) ==
    IF known THEN << >>
    ELSE <<"    Please open a Bug report with the information above:",
           "    " \o bugReportUrl(packageRepository)>>

\* What the confirm or select prompt settles as.
PromptAnswers ==
    {[kind |-> k, index |-> 0] : k \in {"yes", "no", "cancel", "tty", "error"}}
    \cup {[kind |-> "selected", index |-> i] : i \in 1..2}

\* The catch of the run: the message is printed, handleCliError runs, and the
\* process exits with 1.  The repository is the one of the package.json the
\* program was built with; a run prints at most one error.
ExitsWith(known, message) ==
    /\ outro' = "* " \o message
    /\ \E packageRepository \in PackageRepositories :
            stderr' = handleCliError(known, packageRepository)
    /\ cpc' = "exited"
\* The catch of the run for a KnownError
Exits(message) == ExitsWith(TRUE, message)

hookCommandName == "prepare-commit-msg-hook"

\* The commit message file of the repository.
CommitMessageFile == ".git/COMMIT_EDITMSG"

\* The arguments the hook file is run with: Git passes the path of the commit
\* message file, then the commit source and the commit it names when there
\* is one; a run by hand may pass nothing.
HookArguments ==
    {<< >>, <<CommitMessageFile>>, <<CommitMessageFile, "message">>,
     <<CommitMessageFile, "commit", "HEAD">>}

\* process.argv.slice(2) when the hook module is loaded.  The hook file is the
\* script hook install writes (hookScript: it puts hookCommandName in front of
\* the arguments, then imports cli.mjs), or a symlink to cli.mjs left by an
\* older version.
hookArgv(flags) ==
    IF flags.installed = "wrapper" THEN <<hookCommandName>> \o flags.gitArguments
    ELSE flags.gitArguments

\* hookScript without the splice
hookArgvAsPassed(flags) == flags.gitArguments

\* const [messageFilePath, commitSource] = process.argv.slice(2)
messageFilePath(flags) == SubSeq(hookArgv(flags), 1, IF Len(hookArgv(flags)) >= 1 THEN 1 ELSE 0)
commitSource(flags) == SubSeq(hookArgv(flags), 2, IF Len(hookArgv(flags)) >= 2 THEN 2 ELSE 1)

CliInit ==
    /\ StreamUnused
    /\ GenUnused
    /\ JudgeUnused
    /\ PureUnused
    /\ ShellUnused
    /\ command \in {"aicommits", "hook"}
    /\ \E setting \in Settings, all \in BOOLEAN, yes \in BOOLEAN,
          how \in {"wrapper", "symlink"}, arguments \in HookArguments,
          base \in {"", "# Please enter the commit message\n"} :
          /\ configFile = setting[2]
          /\ IF command = "aicommits"
             THEN argv = [setting[1] EXCEPT !.stageAll = all, !.autoConfirm = yes]
                  /\ how = "wrapper" /\ arguments = << >> /\ base = ""
             ELSE argv = [NoFlags EXCEPT !.installed = how, !.gitArguments = arguments,
                                         !.baseMessage = base]
                  /\ setting[1] = NoFlags /\ ~all /\ ~yes
    /\ repository \in Repositories
    /\ command = "hook" => ~repository.unstaged
    /\ gitIndex = repository
    /\ config = << >>
    /\ effects = << >>
    /\ cliMessages = << >>
    /\ answer = << >>
    /\ committed = << >>
    /\ messageFile = argv.baseMessage
    /\ outro = ""
    /\ stderr = << >>
    /\ requestError = << >>
    /\ cpc = "start"

\* aicommits.ts 61-99: the staging of --all, the staged check, getConfig, and
\* the call of generateCommitMessage.
CommandStarts ==
    /\ command = "aicommits" /\ cpc = "start"
    /\ \E index \in {IF argv.stageAll THEN gitAddUpdate(gitIndex) ELSE gitIndex},
          added \in {IF argv.stageAll THEN <<GitAddUpdate>> ELSE << >>},
          loaded \in {getConfig(commandCliConfig(argv), configFile)} :
           /\ gitIndex' = index
           /\ IF ~index.staged
              THEN /\ Exits(NoStagedChangesError)
                   /\ effects' = effects \o added
                   /\ config' = config
              ELSE /\ config' = <<loaded>>
                   /\ IF loaded.error # ""
                      THEN Exits(loaded.error) /\ effects' = effects \o added
                      ELSE /\ cpc' = "generating"
                           /\ UNCHANGED <<outro, stderr>>
                           /\ effects' = effects \o added \o <<ChatCompletionRequest>>
    /\ UNCHANGED <<command, argv, configFile, repository, cliMessages, answer,
                   committed, messageFile, requestError, svars, gvars, jvars, pvars, hvars>>

\* aicommits.ts 223-225: git commit -m message, which may fail.
Commits(message, succeeds) ==
    /\ effects' = Append(effects, GitCommit)
    /\ IF succeeds
       THEN /\ committed' = <<message>>
            /\ gitIndex' = [gitIndex EXCEPT !.staged = FALSE]
            /\ outro' = "* Successfully committed!"
            /\ stderr' = stderr
            /\ cpc' = "returned"
       ELSE /\ ExitsWith(FALSE, "Command failed with exit code 1: git commit")
            /\ UNCHANGED <<committed, gitIndex>>

\* aicommits.ts 149-186: generateCommitMessage settles; the empty list is an
\* error, and with --yes the first message is committed without a prompt.
CommandGenerationSettles ==
    /\ command = "aicommits" /\ cpc = "generating"
    /\ \E outcome \in GenerationOutcomes, succeeds \in BOOLEAN :
          /\ Len(outcome.messages) <= config[1].generate
          /\ requestError' = outcome.cause
          /\ IF outcome.error # ""
             THEN /\ ExitsWith(outcome.known, outcome.error)
                  /\ succeeds
                  /\ UNCHANGED <<cliMessages, effects, committed, gitIndex>>
             ELSE /\ cliMessages' = <<outcome.messages>>
                  /\ IF Len(outcome.messages) = 0
                     THEN /\ Exits(EmptyResultError)
                          /\ succeeds
                          /\ UNCHANGED <<effects, committed, gitIndex>>
                     ELSE IF argv.autoConfirm
                     THEN Commits(outcome.messages[1], succeeds)
                     ELSE /\ cpc' = "prompting"
                          /\ succeeds
                          /\ UNCHANGED <<outro, stderr, effects, committed, gitIndex>>
    /\ UNCHANGED <<command, argv, configFile, repository, config, answer,
                   messageFile, svars, gvars, jvars, pvars, hvars>>

\* aicommits.ts 187-225: the prompt settles: confirm for one message, select
\* for several; a cancel returns, an error of the prompt is thrown, and the
\* message that was accepted is committed.
PromptSettles ==
    /\ command = "aicommits" /\ cpc = "prompting"
    /\ \E reply \in PromptAnswers, succeeds \in BOOLEAN :
          \E list \in {cliMessages[1]} :
          /\ IF Len(list) = 1
             THEN reply.kind \in {"yes", "no", "cancel", "tty", "error"}
             ELSE reply.kind \in {"selected", "cancel", "tty", "error"}
                  /\ reply.index <= Len(list)
          /\ answer' = <<reply>>
          /\ CASE reply.kind \in {"no", "cancel"} ->
                      /\ outro' = "Commit cancelled"
                      /\ stderr' = stderr
                      /\ cpc' = "returned"
                      /\ succeeds
                      /\ UNCHANGED <<effects, committed, gitIndex>>
               [] reply.kind = "tty" ->
                      /\ Exits(TtyInitializationError)
                      /\ succeeds
                      /\ UNCHANGED <<effects, committed, gitIndex>>
               [] reply.kind = "error" ->
                      /\ ExitsWith(FALSE, "read EIO")
                      /\ succeeds
                      /\ UNCHANGED <<effects, committed, gitIndex>>
               [] reply.kind = "yes" -> Commits(list[1], succeeds)
               [] reply.kind = "selected" -> Commits(list[reply.index], succeeds)
    /\ UNCHANGED <<command, argv, configFile, repository, config, cliMessages,
                   messageFile, requestError, svars, gvars, jvars, pvars, hvars>>

\* prepare-commit-msg-hook.ts 44-62, 108-131: the checks of the hook,
\* getConfig, and the call of generateCommitMessage.
HookStarts ==
    /\ command = "hook" /\ cpc = "start"
    /\ \E loaded \in {getConfig(hookCliConfig, configFile)} :
       IF messageFilePath(argv) = << >>
       THEN Exits(MissingMessageFileError) /\ UNCHANGED <<config, effects>>
       ELSE IF commitSource(argv) # << >> \/ ~gitIndex.staged
       THEN cpc' = "returned" /\ UNCHANGED <<config, effects, outro, stderr>>
       ELSE /\ config' = <<loaded>>
            /\ IF loaded.error # ""
               THEN Exits(loaded.error) /\ UNCHANGED effects
               ELSE /\ cpc' = "generating"
                    /\ effects' = Append(effects, ChatCompletionRequest)
                    /\ UNCHANGED <<outro, stderr>>
    /\ UNCHANGED <<command, argv, configFile, repository, gitIndex, cliMessages,
                   answer, committed, messageFile, requestError, svars, gvars, jvars, pvars, hvars>>

\* `${messages[0]}`: the text "undefined" when the list is empty
firstMessageText(list) == IF Len(list) = 0 THEN "undefined" ELSE list[1]

\* prepare-commit-msg-hook.ts 151-171: the text the hook appends to the
\* commit message file for the messages and the content the file has.
instructionsOf(supportsComments, hasMultipleMessages, list) ==
        (IF supportsComments
         THEN "# * AI generated commit" \o (IF hasMultipleMessages THEN "s" ELSE "") \o "\n"
         ELSE "")
        \o (IF hasMultipleMessages
            THEN (IF supportsComments
                  THEN "# Select one of the following messages by uncommeting:\n"
                  ELSE "")
                 \o "\n" \o JoinWith([i \in 1..Len(list) |-> "# " \o list[i]], "\n")
            ELSE (IF supportsComments THEN "# Edit the message below and commit:\n" ELSE "")
                 \o "\n" \o firstMessageText(list) \o "\n")
hookInstructions(baseMessage, list) == instructionsOf(baseMessage # "", Len(list) > 1, list)

\* prepare-commit-msg-hook.ts 108-177: generateCommitMessage settles, and
\* the hook reads the file messageFilePath names (which fails when there is
\* no such file) and appends its text to it.
HookGenerationSettles ==
    /\ command = "hook" /\ cpc = "generating"
    /\ \E outcome \in GenerationOutcomes :
          /\ Len(outcome.messages) <= config[1].generate
          /\ requestError' = outcome.cause
          /\ IF outcome.error # ""
             THEN /\ ExitsWith(outcome.known, outcome.error)
                  /\ UNCHANGED <<cliMessages, effects, messageFile>>
             ELSE /\ cliMessages' = <<outcome.messages>>
                  /\ IF messageFilePath(argv) # <<CommitMessageFile>>
                     THEN /\ ExitsWith(FALSE, "ENOENT: no such file or directory, open '"
                                              \o messageFilePath(argv)[1] \o "'")
                          /\ UNCHANGED <<effects, messageFile>>
                     ELSE /\ messageFile' = messageFile
                                              \o hookInstructions(messageFile, outcome.messages)
                          /\ effects' = Append(effects, AppendFile)
                          /\ outro' = "* Saved commit message!"
                          /\ stderr' = stderr
                          /\ cpc' = "returned"
    /\ UNCHANGED <<command, argv, configFile, repository, gitIndex, config,
                   answer, committed, svars, gvars, jvars, pvars, hvars>>

CliNext ==
    \/ CommandStarts
    \/ CommandGenerationSettles
    \/ PromptSettles
    \/ HookStarts
    \/ HookGenerationSettles

SpecCli == CliInit /\ [][CliNext]_vars

(***************************************************************************)
(* Properties of the command and of the hook.                              *)
(***************************************************************************)
Done == cpc \in {"returned", "exited"}
Made(effect) == \E i \in 1..Len(effects) : effects[i] = effect
ReturnedEmptyList == cliMessages = << << >> >>

\* C18: when generateCommitMessage returned the empty list, the run exits with
\* the error "No commit messages were generated. Try again.", no git commit
\* was executed, and nothing was appended to the commit message file; this
\* holds for the command and for the hook.
C18_EmptyResultIsFatal ==
    ReturnedEmptyList =>
        /\ cpc = "exited"
        /\ outro = "* " \o EmptyResultError
        /\ committed = << >> /\ ~Made(GitCommit)
        /\ messageFile = argv.baseMessage /\ ~Made(AppendFile)

\* The hook was handed the empty list, wrote the text "undefined" as the
\* message to the commit message file and reported success.
C18_Witness ==
    /\ command = "hook" /\ ReturnedEmptyList /\ cpc = "returned"
    /\ outro = "* Saved commit message!"
    /\ messageFile = argv.baseMessage \o hookInstructions(argv.baseMessage, << >>)
    /\ Contains(messageFile, "\nundefined\n")

Accepted ==
    argv.autoConfirm \/ (answer # << >> /\ answer[1].kind \in {"yes", "selected"})

\* C19: git commit is executed only after generateCommitMessage returned a
\* list that is not empty and the user confirmed or selected a message (or
\* auto-confirm is set); when the command ends in any other way (validation
\* error, nothing staged, API error, empty result, cancel), the index is what
\* it was when the command started, also with --all.
C19_NeverPartiallyCommits ==
    /\ Made(GitCommit) =>
           cliMessages # << >> /\ Len(cliMessages[1]) > 0 /\ Accepted
    /\ (command = "aicommits" /\ Done /\ ~Made(GitCommit)) => gitIndex = repository

\* The command was started with --all, the prompt was cancelled, and the
\* changes of the tracked files stay in the index.
C19_Witness ==
    /\ command = "aicommits" /\ argv.stageAll /\ cpc = "returned"
    /\ outro = "Commit cancelled" /\ ~Made(GitCommit)
    /\ repository.unstaged /\ gitIndex # repository

\* The raw value getConfig hands to the parser of a key in this run.
settingOf(key) ==
    rawConfigValue(IF command = "aicommits" THEN commandCliConfig(argv) ELSE hookCliConfig,
                   configFile, key)
IsSet(value) == value.kind # "undefined" /\ ~(value.kind = "string" /\ value.text = "")
IntegerFrom(parsed, least) == IsInteger(parsed) /\ parsed.int >= least
IsIntegerFrom(value, least) ==
    value.kind \in {"string", "number"} /\ IntegerFrom(ToNumber(value), least)
IntegerUpTo(parsed, least, most) ==
    IsInteger(parsed) /\ parsed.int >= least /\ parsed.int <= most
IsIntegerUpTo(value, least, most) ==
    value.kind \in {"string", "number"} /\ IntegerUpTo(ToNumber(value), least, most)
IsOneOf(value, texts) == value.kind = "string" /\ ToLowerCase(Trim(value.text)) \in texts
IsFlag(value) ==
    \/ value.kind = "boolean"
    \/ value.kind = "number" /\ IsInteger(value) /\ value.int \in {0, 1}
    \/ IsOneOf(value, {"true", "1", "yes", "on", "false", "0", "no", "off"})
InvalidGenerate(value) == IsSet(value) /\ ~IsIntegerUpTo(value, 1, 5)
InvalidMaxLength(value) == IsSet(value) /\ ~IsIntegerFrom(value, 20)
InvalidTimeout(value) == IsSet(value) /\ ~IsIntegerFrom(value, 500)
InvalidType(value) == IsSet(value) /\ ~(value.kind = "string" /\ value.text \in commitTypes)
InvalidDetailsStyle(value) == IsSet(value) /\ ~IsOneOf(value, {"paragraph", "list"})
InvalidFlag(value) == IsSet(value) /\ ~IsFlag(value)
\* A setting of the run is given and is not a valid value of its key:
\* generate outside 1..5, max-length below 20, timeout below 500, an unknown
\* type, a details-style other than paragraph or list, a flag that is not a
\* boolean.
InvalidSetting ==
    \/ InvalidGenerate(settingOf("generate"))
    \/ InvalidMaxLength(settingOf("max-length"))
    \/ InvalidTimeout(settingOf("timeout"))
    \/ InvalidType(settingOf("type"))
    \/ InvalidDetailsStyle(settingOf("details-style"))
    \/ InvalidFlag(settingOf("details"))

\* C20: when getConfig has run on a configuration with an invalid setting,
\* the run has exited with a validation error and no chat completion request
\* was issued.
C20_InvalidConfigAborts ==
    (config # << >> /\ InvalidSetting) =>
        /\ cpc = "exited"
        /\ StartsWith(outro, "* Invalid config property")
        /\ ~Made(ChatCompletionRequest)

\* config.toml says generate = 0 (or another setting is invalid), getConfig
\* returned a configuration, and the request was issued.
C20_Witness ==
    /\ config # << >> /\ InvalidSetting
    /\ config[1].error = ""
    /\ Made(ChatCompletionRequest)

ThrownByRequest == Done /\ requestError # << >>

\* C21: when a completion request fails with a DNS or connection error (host
\* not found, connection refused, unreachable proxy), the run ends with a
\* known error (handleCliError asks for no bug report) whose message names
\* the host that could not be reached.
C21_TransportErrorIsKnown ==
    ThrownByRequest =>
        /\ cpc = "exited"
        /\ stderr = << >>
        /\ Contains(outro, requestError[1].host)

\* The host name of the API did not resolve, and the run exited with the
\* known error that names it.
C21_Witness ==
    /\ ThrownByRequest
    /\ requestError[1].code = "ENOTFOUND"
    /\ outro = "* Error connecting to api.openai.com (getaddrinfo). Are you connected to the internet?"
    /\ stderr = << >>

RunByInstalledHook ==
    command = "hook" /\ argv.installed = "wrapper" /\ Len(argv.gitArguments) >= 1
SkippedGeneration == Done /\ ~Made(ChatCompletionRequest) /\ config = << >>

\* C22: when Git runs the hook script that hook install wrote, with the path
\* of the commit message file, the hook skips generation exactly when Git
\* passed a commit source or nothing is staged; otherwise it generates, and
\* the messages it gets are appended to the commit message file.
C22_HookGeneratesForPlainCommit ==
    (RunByInstalledHook /\ Done) =>
        /\ SkippedGeneration <=> (Len(argv.gitArguments) >= 2 \/ ~repository.staged)
        /\ (cliMessages # << >> /\ Len(cliMessages[1]) > 0) =>
               /\ Made(AppendFile)
               /\ messageFile = argv.baseMessage
                                 \o hookInstructions(argv.baseMessage, cliMessages[1])

\* Git ran the installed hook script for a plain git commit with staged
\* changes, and the hook returned without a request and without a write.
C22_Witness ==
    /\ RunByInstalledHook /\ argv.gitArguments = <<CommitMessageFile>>
    /\ repository.staged
    /\ cpc = "returned" /\ effects = << >> /\ messageFile = argv.baseMessage

(***************************************************************************)
(* Functions of the post-processing applied on their own, and again to     *)
(* what they returned.                                                     *)
(***************************************************************************)
MaxApplications == 2

\* Messages with and without a scope, a body, outer white space, quotes.
ScopeMessages ==
    {"refactor(Stitcher): Convert to async",
     "feat(Store): Add cache\n\n- store metadata",
     "fix: Handle nil image",
     "Fix: Handle nil image",
     "Fix(api): add x",
     "feat(api):  add x",
     "feat:  add x",
     "  feat(api): add x  ",
     "feat(api): add x\nBody: adds x.",
     "feat: add x\nadds x",
     "feat: add x\n\nadds x",
     "add x",
     "feat(api) add x",
     "feat(): add x",
     "feat(a)(b): x",
     "feat(a b): x",
     "feat(api):add x",
     "feat(api)!: add x",
     "\"feat(a): x.\"",
     "title: feat(a): x",
     "feat(a): x\n\nBody: Body: y",
     "docs(readme): update\r\n\r\ndetails",
     ""}

\* Messages whose subject starts with a type word, once or several times.
TypeWordMessages ==
    {"refactor: refactor x",
     "refactor: refactor refactor x",
     "refactor: Refactor: refactor x",
     "refactor: refactor",
     "feat: fix feat x",
     "feat(api): feature x",
     "fix: bugfix-fix y",
     "chore: feat x",
     "Fix(api): add x",
     "fix: add x",
     "add x",
     "refactor: refactor refactor x\n\nBody: y"}

LastOutput == IF fnOutputs = << >> THEN fnInput.message ELSE fnOutputs[Len(fnOutputs)]

\* The arguments of generateCommitMessage that its system prompts depend
\* on: the type and the options instructions, conventionalScope,
\* conventionalFormat and includeDetails (<< >> for an option left out).
PromptInputs ==
    [type : {"", "conventional"},
     instructions : {<< >>, <<"">>, <<"Use short and direct wording">>,
                     <<" Mention the ticket\nPrefer class names ">>},
     conventionalScope : {<< >>, <<TRUE>>, <<FALSE>>},
     conventionalFormat : {<< >>, <<"<type>: <subject>">>, <<"<type>(<scope>): <subject>">>},
     includeDetails : BOOLEAN]

\* The catalog of the call (parseConventionalTypes of the option).
promptTypes ==
    <<[typeName |-> "feat", description |-> "A new feature"],
      [typeName |-> "fix", description |-> "A bug fix"]>>

\* The extraInstructions of the second requestMessages call.
hardRequirement ==
    JoinWith(<<"Hard requirement for this run: use conventional title with non-empty scope exactly in \"<type>(<scope>): <subject>\" format.",
               "Do not omit scope. Pick the strongest file/class/module anchor as scope.">>, "\n")

\* requestMessages: mergedInstructions (<< >> for an argument left out)
mergedInstructions(instructions, extraInstructions, includeUserInstructions) ==
    JoinWith(FilterNonEmpty(
        <<IF includeUserInstructions /\ instructions # << >> THEN Trim(instructions[1]) ELSE "",
          IF extraInstructions = << >> THEN "" ELSE Trim(extraInstructions[1])>>), "\n")

\* requestMessages: the system prompt of its requests
promptOfMerged(input, merged) ==
    generatePrompt("en", "50", input.type,
        [includeDetails |-> input.includeDetails, detailsStyle |-> "paragraph",
         instructions |-> <<merged>>, conventionalFormat |-> input.conventionalFormat,
         conventionalScope |-> input.conventionalScope, changedFiles |-> << >>,
         types |-> promptTypes, lockedConventionalType |-> << >>])
requestPrompt(input, extraInstructions, includeUserInstructions) ==
    promptOfMerged(input,
        mergedInstructions(input.instructions, extraInstructions, includeUserInstructions))

\* The options of the call as the pipeline reads them.
pipelineOptions(input) ==
    [type |-> input.type, conventionalScope |-> input.conventionalScope,
     conventionalFormat |-> input.conventionalFormat]

PureInit ==
    /\ StreamUnused
    /\ GenUnused
    /\ JudgeUnused
    /\ CliUnused
    /\ \/ /\ fnName \in {"stripConventionalScopeFromMessage", "generateCommitMessage"}
          /\ fnInput \in [message : ScopeMessages, includeDetails : BOOLEAN]
       \/ /\ fnName = "harmonizeConventionalMessage"
          /\ fnInput \in [message : TypeWordMessages, includeDetails : BOOLEAN]
       \/ /\ fnName = "requestMessages"
          /\ fnInput \in PromptInputs
    /\ fnOutputs = << >>
    /\ ShellUnused

\* stripConventionalScopeFromMessage(message, includeDetails), first of the
\* input and then of what it returned.
StripConventionalScope ==
    /\ fnName = "stripConventionalScopeFromMessage"
    /\ Len(fnOutputs) < MaxApplications
    /\ fnOutputs' = Append(fnOutputs,
                           stripConventionalScopeFromMessage(LastOutput, fnInput.includeDetails))
    /\ UNCHANGED <<fnName, fnInput, svars, gvars, jvars, cvars, hvars>>

\* The options of a conventional call with conventionalScope false, one
\* completion, the locale en (no title is rewritten).
optionsWithoutScope(includeDetails) ==
    [type |-> "conventional", locale |-> "en", completions |-> 1,
     includeDetails |-> includeDetails, detailsStyle |-> "paragraph",
     conventionalFormat |-> << >>, conventionalScope |-> <<FALSE>>]

\* generateCommitMessage with these options, the model answering the one
\* completion request with the input text: the list it returns.
GenerateWithoutScope ==
    /\ fnName = "generateCommitMessage"
    /\ fnOutputs = << >>
    /\ fnOutputs' = returnedOfPass(optionsWithoutScope(fnInput.includeDetails),
                                   <<Success(<<Choice(0, Str(fnInput.message))>>)>>, << >>)
    /\ UNCHANGED <<fnName, fnInput, svars, gvars, jvars, cvars, hvars>>

\* The requestMessages calls of generateCommitMessage, by the system prompt
\* each one sends: the first call, and the second call that is made under
\* scope enforcement when no message of the first has a scope.
RequestMessages ==
    /\ fnName = "requestMessages"
    /\ \/ /\ fnOutputs = << >>
          /\ fnOutputs' = <<requestPrompt(fnInput, << >>, TRUE)>>
       \/ /\ Len(fnOutputs) = 1
          /\ enforceConventionalScope(pipelineOptions(fnInput))
          /\ fnOutputs' = Append(fnOutputs, requestPrompt(fnInput, <<hardRequirement>>, FALSE))
    /\ UNCHANGED <<fnName, fnInput, svars, gvars, jvars, cvars, hvars>>

\* harmonizeConventionalMessage(message, includeDetails, lookup) with the
\* lookup of the built-in catalog, first of the input and then of what it
\* returned.
HarmonizeConventionalMessage ==
    /\ fnName = "harmonizeConventionalMessage"
    /\ Len(fnOutputs) < MaxApplications
    /\ fnOutputs' = Append(fnOutputs,
                           harmonizeConventionalMessage(LastOutput, fnInput.includeDetails))
    /\ UNCHANGED <<fnName, fnInput, svars, gvars, jvars, cvars, hvars>>

PureNext ==
    \/ StripConventionalScope
    \/ GenerateWithoutScope
    \/ RequestMessages
    \/ HarmonizeConventionalMessage

SpecPure == PureInit /\ [][PureNext]_vars

StripApplied == fnName = "stripConventionalScopeFromMessage" /\ fnOutputs # << >>

\* The message the claim describes for a title that matched with a scope:
\* the type, ": ", the subject, and the body.
scopeRemoved(parts, match, includeDetails) ==
    withTitle(match.type \o ": " \o match.subject, parts.body, includeDetails)
expectedWithoutScope(message, parts, match, includeDetails) ==
    IF match.ok /\ match.scope # "" THEN scopeRemoved(parts, match, includeDetails)
    ELSE message
expectedOfParts(message, parts, includeDetails) ==
    expectedWithoutScope(message, parts, matchConventionalTitle(parts.title), includeDetails)
ExpectedStripped(message, includeDetails) ==
    expectedOfParts(message, titleAndBody(message, includeDetails), includeDetails)

\* C23: stripConventionalScopeFromMessage removes the (scope) of a
\* conventional title and keeps the type, the subject and the body; a message
\* whose title has no scope is returned unchanged; a second application
\* changes nothing.
C23_ScopeStrippedOnly ==
    StripApplied =>
        /\ fnOutputs[1] = ExpectedStripped(fnInput.message, fnInput.includeDetails)
        /\ Len(fnOutputs) >= 2 => fnOutputs[2] = fnOutputs[1]

\* A title without a scope came back changed.
C23_Witness ==
    /\ StripApplied
    /\ fnInput.message = "Fix: Handle nil image" /\ ~fnInput.includeDetails
    /\ fnOutputs[1] = "fix: Handle nil image"

(***************************************************************************)
(* C24: in conventional mode with conventionalScope false, no message      *)
(* generateCommitMessage returns has a title carrying a scope, whatever    *)
(* title the model produced.  A title carries a scope when it is a type, a *)
(* parenthesised scope and a colon before the subject                      *)
(* (conventionalScopedTitlePattern).                                       *)
(***************************************************************************)
GeneratedWithoutScope == fnName = "generateCommitMessage" /\ fnOutputs # << >>

C24_NoScopeWhenDisabled ==
    GeneratedWithoutScope =>
        \A i \in 1..Len(fnOutputs) :
            ~hasConventionalScope(fnOutputs[i], fnInput.includeDetails)

\* The model answered with a scoped title that has no space after the colon,
\* and the call returned it with its scope.
C24_Witness ==
    /\ GeneratedWithoutScope
    /\ fnInput.message = "feat(api):add x"
    /\ fnOutputs = <<"feat(api):add x">>

(***************************************************************************)
(* C27: the retry pass uses the prompt of the first pass with the          *)
(* hard-requirement scope instruction added: every instruction of the      *)
(* first pass, the custom instructions of the user included when they are  *)
(* not empty, is in the system prompt of the retry pass.                   *)
(***************************************************************************)
Retried == fnName = "requestMessages" /\ Len(fnOutputs) = 2

\* The prompt of the first pass with the hard requirement added to its
\* instructions.
firstPromptWithHardRequirement(input) == requestPrompt(input, <<hardRequirement>>, TRUE)

C27_RetryKeepsInstructions ==
    Retried => fnOutputs[2] = firstPromptWithHardRequirement(fnInput)

\* A retry pass of a call with custom instructions: its prompt holds the hard
\* requirement and not the instructions of the user.
C27_Witness ==
    /\ Retried
    /\ fnInput.instructions = <<"Use short and direct wording">>
    /\ fnOutputs[1][Len(fnOutputs[1])] = "Use short and direct wording"
    /\ fnOutputs[2][Len(fnOutputs[2])] = hardRequirement

(***************************************************************************)
(* C28: after the post-processing of conventional mode no title of the     *)
(* form type[(scope)]: subject has a subject that begins with its own type *)
(* word, whatever the model wrote and however often the type word leads;   *)
(* harmonizing a harmonized title changes nothing.                         *)
(***************************************************************************)
Harmonized(n) == fnName = "harmonizeConventionalMessage" /\ Len(fnOutputs) >= n

\* The word the subject starts with is the type of the title.
typeWordLeads(match, word) ==
    match.ok /\ word # "" /\ ToLowerCase(word) = ToLowerCase(match.type)
subjectRepeatsType(match, subject) ==
    typeWordLeads(match, Slice(subject, 1, SpanIn(subject, 1, Letters)))
titleRepeatsType(match) == match.ok /\ subjectRepeatsType(match, Trim(match.subject))
RepeatsType(message, includeDetails) ==
    titleRepeatsType(matchConventionalTitle(titleAndBody(message, includeDetails).title))

C28_NoLeadingTypeWord ==
    /\ Harmonized(1) => ~RepeatsType(fnOutputs[1], fnInput.includeDetails)
    /\ Harmonized(2) => fnOutputs[2] = fnOutputs[1]

\* A title with the type word twice in its subject: one is removed, the
\* next application removes the other.
C28_Witness ==
    /\ Harmonized(2)
    /\ fnInput = [message |-> "refactor: refactor refactor x", includeDetails |-> FALSE]
    /\ fnOutputs = <<"refactor: refactor x", "refactor: x">>

(***************************************************************************)
(* C29: the prompt and the pipeline agree on the scope preference: for     *)
(* every value of the conventionalScope option, the unset one included,    *)
(* generateCommitMessage enforces scope (filters and retries) exactly when *)
(* the prompt it sent tells the model to include a scope, and an unset     *)
(* option counts as true.                                                  *)
(***************************************************************************)
Prompted == fnName = "requestMessages" /\ fnOutputs # << >>

ScopeRule ==
    "- For conventional commits, include scope using the primary file/class/module when possible (for example: refactor(RecentScrollshotController): ...)."

\* The prompt tells the model to include a scope.
AsksForScope(prompt) == \E k \in 1..Len(prompt) : prompt[k] = ScopeRule

ScopeUnset ==
    /\ fnInput.type = "conventional"
    /\ fnInput.conventionalScope = << >>
    /\ supportsConventionalScope(fnInput.conventionalFormat)

C29_PromptAndPipelineAgree ==
    Prompted =>
        /\ enforceConventionalScope(pipelineOptions(fnInput)) <=> AsksForScope(fnOutputs[1])
        /\ ScopeUnset => enforceConventionalScope(pipelineOptions(fnInput))

\* A conventional call with conventionalScope left out: the prompt sent asks
\* for a scope and the pipeline does not enforce one.
C29_Witness ==
    /\ Prompted
    /\ ScopeUnset
    /\ AsksForScope(fnOutputs[1])
    /\ ~enforceConventionalScope(pipelineOptions(fnInput))

(***************************************************************************)
(* The config command (commands/config.ts with utils/config.ts of          *)
(* src/unnamed/part_004) and the hook command (src/unnamed/part_003), run  *)
(* one after the other in a Git repository: each run reads and writes the  *)
(* config file and the prepare-commit-msg file of the hooks directory.     *)
(* The config file holds top-level lines only, no profile is selected.     *)
(* "*" stands for the check and cross marks of the lines printed.          *)
(***************************************************************************)
MaxInvocations == 3

\* The key of the config file that is followed.
ScopeKey == "conventional-scope"

\* The config file: no line of the key, or the text after "key = ".
ConfigFiles == {[k \in {ScopeKey} |-> text] : text \in {<< >>, <<"true">>, <<"false">>, <<"\"off\"">>, <<"false # off">>}}

\* The prepare-commit-msg file: none, the script hook install writes, a
\* symlink to cli.mjs (what older versions installed), or the hook of
\* another program.
HookFiles == {"none", "hookScript", "legacySymlink", "otherHook"}

\* The arguments of the runs.
ConfigGetArguments == {<<"config", "get", key>> : key \in {ScopeKey, "style"}}
ConfigSetArguments ==
    {<<"config", "set", keyValue>> :
        keyValue \in {"conventional-scope=true", "conventional-scope=false",
                      "conventional-scope=maybe", "style=x", "conventional-scope"}}

\* A finished run.
Invocation(arguments, stdout, errors, exitCode) ==
    [argv |-> arguments, stdout |-> stdout, stderr |-> errors, exitCode |-> exitCode]

\* The catch of a command for a KnownError: the message on stderr, exit 1.
Fails(arguments, message) == Invocation(arguments, << >>, <<"* " \o message>>, 1)

\* String(value) of a boolean
BooleanToString(value) == IF value THEN "true" ELSE "false"

\* getConfig({}, true) and the line config get prints for a key: nothing for
\* a key that is no config property, and nothing when the parser of the key
\* threw (suppressErrors).
printedOfParsed(key, parsed) ==
    IF parsed.error # "" THEN << >> ELSE <<key \o "=" \o BooleanToString(parsed.bool)>>
printedConfig(file, key) ==
    IF key \notin DOMAIN file THEN << >>
    ELSE printedOfParsed(key, parserOf(key, fileValue(file, key)))

\* parseKeyValue
parseKeyValueAt(keyValue, index) ==
    IF index <= 1
    THEN [error |-> "Invalid config assignment: \"" \o keyValue \o "\". Use <key>=<value>.",
          key |-> "", value |-> ""]
    ELSE [error |-> "", key |-> Slice(keyValue, 1, index - 1), value |-> From(keyValue, index + 1)]
parseKeyValue(keyValue) == parseKeyValueAt(keyValue, IndexOf(keyValue, "=", 1))

\* setConfigs of one pair: the error it throws, or the file it writes
\* (stringifyTomlConfig: key = String(parsed) for a boolean).
writtenOfParsed(file, key, parsed) ==
    IF parsed.error # "" THEN [error |-> parsed.error, file |-> file]
    ELSE [error |-> "", file |-> [file EXCEPT ![key] = <<BooleanToString(parsed.bool)>>]]
setConfigOfPair(file, pair) ==
    IF pair.error # "" THEN [error |-> pair.error, file |-> file]
    ELSE IF pair.key \notin DOMAIN file
    THEN [error |-> "Invalid config property: " \o pair.key, file |-> file]
    ELSE writtenOfParsed(file, pair.key, parserOf(pair.key, RawString(pair.value)))
setConfigs(file, keyValue) == setConfigOfPair(file, parseKeyValue(keyValue))

\* The arguments of the runs of the hook command.
HookInstallArguments == <<"hook", "install">>
HookUninstallArguments == <<"hook", "uninstall">>

DifferentHookError ==
    "A different prepare-commit-msg hook seems to be installed. Please remove it before installing aicommits."

\* fileExists(absoluteHookPath)
fileExists(hook) == hook # "none"

\* scriptContent === hookScript: a symlink to cli.mjs reads as cli.mjs
isManagedHookScript(hook) == hook = "hookScript"

\* realpath === hookPath
isLegacyHookSymlink(hook) == hook = "legacySymlink"

\* mkdir, writeFile(absoluteHookPath, hookScript), chmod, 'Hook installed'
writeHookScript(arguments) ==
    [hook |-> "hookScript", run |-> Invocation(arguments, <<"* Hook installed">>, << >>, 0)]

\* An install that writes the script whatever file is there.
installOverAnyHook(arguments, hook) == writeHookScript(arguments)

\* mode === 'install': the hook file and the run it leaves
installHook(arguments, hook) ==
    IF fileExists(hook) /\ isManagedHookScript(hook)
    THEN [hook |-> hook,
          run |-> Invocation(arguments, << >>, <<"The hook is already installed">>, 0)]
    ELSE IF fileExists(hook) /\ ~isLegacyHookSymlink(hook)
    THEN [hook |-> hook, run |-> Fails(arguments, DifferentHookError)]
    ELSE writeHookScript(arguments)

\* mode === 'uninstall': the hook file and the run it leaves
uninstallHook(arguments, hook) ==
    IF ~fileExists(hook) \/ ~(isManagedHookScript(hook) \/ isLegacyHookSymlink(hook))
    THEN [hook |-> hook, run |-> Invocation(arguments, << >>, <<"Hook is not installed">>, 0)]
    ELSE [hook |-> "none", run |-> Invocation(arguments, <<"* Hook uninstalled">>, << >>, 0)]

ShellInit ==
    /\ StreamUnused
    /\ GenUnused
    /\ JudgeUnused
    /\ CliUnused
    /\ PureUnused
    /\ fileSystem \in [config : ConfigFiles, hook : HookFiles]
    /\ invocations = << >>

\* aicommits config get <key>
ConfigGet ==
    /\ fileSystem # << >>
    /\ Len(invocations) < MaxInvocations
    /\ \E arguments \in ConfigGetArguments :
          invocations' = Append(invocations,
                Invocation(arguments, printedConfig(fileSystem.config, arguments[3]), << >>, 0))
    /\ UNCHANGED <<fileSystem, svars, gvars, jvars, cvars, pvars>>

\* aicommits config set <key=value>
ConfigSet ==
    /\ fileSystem # << >>
    /\ Len(invocations) < MaxInvocations
    /\ \E arguments \in ConfigSetArguments :
       \E written \in {setConfigs(fileSystem.config, arguments[3])} :
          /\ fileSystem' = [fileSystem EXCEPT !.config = written.file]
          /\ invocations' = Append(invocations,
                IF written.error # "" THEN Fails(arguments, written.error)
                ELSE Invocation(arguments, << >>, << >>, 0))
    /\ UNCHANGED <<svars, gvars, jvars, cvars, pvars>>

\* aicommits hook install
HookInstall ==
    /\ fileSystem # << >>
    /\ Len(invocations) < MaxInvocations
    /\ \E done \in {installHook(HookInstallArguments, fileSystem.hook)} :
          /\ fileSystem' = [fileSystem EXCEPT !.hook = done.hook]
          /\ invocations' = Append(invocations, done.run)
    /\ UNCHANGED <<svars, gvars, jvars, cvars, pvars>>

\* aicommits hook uninstall
HookUninstall ==
    /\ fileSystem # << >>
    /\ Len(invocations) < MaxInvocations
    /\ \E done \in {uninstallHook(HookUninstallArguments, fileSystem.hook)} :
          /\ fileSystem' = [fileSystem EXCEPT !.hook = done.hook]
          /\ invocations' = Append(invocations, done.run)
    /\ UNCHANGED <<svars, gvars, jvars, cvars, pvars>>

ShellNext == ConfigGet \/ ConfigSet \/ HookInstall \/ HookUninstall

SpecShell == ShellInit /\ [][ShellNext]_vars

(***************************************************************************)
(* Properties of the config and hook commands (checked under SpecShell).   *)
(***************************************************************************)
Ran(i, arguments) == i \in 1..Len(invocations) /\ invocations[i].argv = arguments
LastRun == Len(invocations)
GetScope == <<"config", "get", ScopeKey>>
SetScope(text) == <<"config", "set", ScopeKey \o "=" \o text>>

\* The config file has no line of conventional-scope and the last command
\* run was config get conventional-scope.
GotUnsetScope == Ran(LastRun, GetScope) /\ fileSystem.config[ScopeKey] = << >>

\* The last three commands were set conventional-scope=true, set
\* conventional-scope=false and get conventional-scope.
GotToggledScope ==
    /\ Ran(LastRun - 2, SetScope("true"))
    /\ Ran(LastRun - 1, SetScope("false"))
    /\ Ran(LastRun, GetScope)

\* C25: conventional-scope defaults to false: with no value in the config
\* file (and none on the command line or in a profile), config get
\* conventional-scope prints conventional-scope=false; after config set
\* conventional-scope=true and then config set conventional-scope=false it
\* prints conventional-scope=false again.
C25_ScopeDefaultsToFalse ==
    /\ GotUnsetScope => invocations[LastRun].stdout = <<"conventional-scope=false">>
    /\ GotToggledScope => invocations[LastRun].stdout = <<"conventional-scope=false">>

\* config get conventional-scope on a file without the key printed
\* conventional-scope=true.
C25_Witness ==
    /\ GotUnsetScope
    /\ invocations[LastRun].stdout = <<"conventional-scope=true">>

(***************************************************************************)
(* C30: for any sequence of hook install and hook uninstall, a             *)
(* prepare-commit-msg hook that aicommits does not manage is never         *)
(* overwritten or removed: install fails with an error and leaves it,      *)
(* uninstall leaves it; install on a managed hook changes nothing; an      *)
(* install followed by uninstall leaves no hook file.  The hooks the       *)
(* command treats as its own are the script it writes and a symlink to     *)
(* cli.mjs (isManagedHook of uninstall).                                   *)
(***************************************************************************)
CommandRuns == fileSystem # << >> /\ Len(invocations') = Len(invocations) + 1
RunNow == invocations'[Len(invocations')]
InstallRuns == CommandRuns /\ RunNow.argv = HookInstallArguments
UninstallRuns == CommandRuns /\ RunNow.argv = HookUninstallArguments
Foreign(hook) == hook = "otherHook"
InstalledJustBefore ==
    /\ invocations # << >>
    /\ invocations[LastRun].argv = HookInstallArguments
    /\ invocations[LastRun].exitCode = 0

ForeignHookKept ==
    /\ (CommandRuns /\ Foreign(fileSystem.hook)) => fileSystem'.hook = fileSystem.hook
    /\ (InstallRuns /\ Foreign(fileSystem.hook)) =>
            /\ RunNow.exitCode = 1
            /\ RunNow.stderr = <<"* " \o DifferentHookError>>
            /\ RunNow.stdout = << >>
UninstallAfterInstallLeavesNoHook ==
    (UninstallRuns /\ InstalledJustBefore) => fileSystem'.hook = "none"

\* The statement of C30, a managed hook being the script or the symlink.
C30_HooksKeptAsTheyAre ==
    [][/\ ForeignHookKept
       /\ (InstallRuns /\ fileSystem.hook \in {"hookScript", "legacySymlink"}) =>
                fileSystem'.hook = fileSystem.hook
       /\ UninstallAfterInstallLeavesNoHook]_vars

\* C30 as the command behaves: a hook that is neither the script of hook
\* install nor a symlink to cli.mjs is never overwritten or removed (install
\* fails with the error and leaves it, uninstall leaves it); install on the
\* installed script changes nothing; install on a symlink to cli.mjs replaces
\* it with the script; uninstall after a successful install leaves no hook
\* file.
C30_ForeignHookUntouched ==
    [][/\ ForeignHookKept
       /\ (InstallRuns /\ fileSystem.hook = "hookScript") =>
                fileSystem'.hook = fileSystem.hook /\ RunNow.exitCode = 0
       /\ (InstallRuns /\ fileSystem.hook = "legacySymlink") =>
                fileSystem'.hook = "hookScript" /\ RunNow.exitCode = 0
       /\ UninstallAfterInstallLeavesNoHook]_vars

\* hook install failed on the hook of another program, hook uninstall ran
\* after it, and the hook is still there.
C30_Witness ==
    /\ Len(invocations) >= 2
    /\ Ran(1, HookInstallArguments) /\ invocations[1].exitCode = 1
    /\ Ran(2, HookUninstallArguments)
    /\ fileSystem.hook = "otherHook"

\* hook install ran on a symlink to cli.mjs and left the script.
C30_LegacyWitness ==
    /\ Ran(1, HookInstallArguments) /\ invocations[1].exitCode = 0
    /\ invocations[1].stdout = <<"* Hook installed">>
    /\ Len(invocations) = 1
    /\ fileSystem.hook = "hookScript"

====
